---- MODULE Spec2Model ----
(***************************************************************************)
(* Model of the Titanic explainer: the chat core below, and the decision   *)
(* tree (converters, path tracers, predict_single) in its own section.     *)
(*   src/src/chat/cohort_patterns.py     the cohort rule table             *)
(*   src/src/chat/response_generator.py  parse_passenger_query and         *)
(*                                       match_to_cohort                   *)
(*   src/backend/routes/predict.py    request validation and handlers    *)
(*   src/backend/main.py, routes/tree.py the startup hook, the tree route  *)
(*   src/app.py                          session state, what-if controls    *)
(*                                       and chat handlers of the app       *)
(*   src/src/tutorial.py                 the guided tutorial                *)
(* Fares are whole pounds (84 is the float 84.0); every fare the modelled   *)
(* code produces is integral.                                              *)
(***************************************************************************)
EXTENDS Integers, Sequences, FiniteSets, TLC

VARIABLES
    m_pc,        \* matcher harness: "idle" | "called" | "returned"
    m_profile,   \* arguments of the match_to_cohort call in progress
    m_result,    \* <<cohort_name, cohort_info>> returned by that call
    m_prev,      \* <<profile, cohort_name>> of the call before it, or <<>>
    m_calls,     \* number of completed match_to_cohort calls (capped)
    q_pc,        \* parser harness: "idle" | "typed" | "parsed"
    query_text,  \* the text handed to parse_passenger_query
    parsed,      \* its return value: a profile record, or None
    t_pc,        \* tree harness: "untrained" | "trained" | "asked" |
                 \*   "traced" | "highlighted" | "predicted"
    model,       \* the fitted model (the arrays of tree_), or None
    trees,       \* the results of the backend's sklearn_tree_to_dict calls
    st_tree,     \* the result of the Streamlit sklearn_tree_to_dict, or None
    whatif_values, \* the what-if input handed to the tracers, or None
    py_path,     \* outcome of trace_path: a path or an exception, or None
    js_path,     \* outcome of tracePath, or None
    prediction,  \* result of predict_single, or None
    b_started,   \* backend: the startup part of lifespan has run
    b_cache,     \* lru_cache of get_trained_model: its one entry, or None
    b_trainings, \* times the body of get_trained_model has run
    b_seen,      \* what the callers of get_trained_model were returned
    b_callers,   \* the callers that called get_trained_model so far
    b_tree_response, \* lru_cache of _get_cached_tree_response, or None
    b_response,  \* the response to the last POST /predict, or None
    b_calls,     \* requests handled so far (capped)
    a_pc,        \* Streamlit app: "rendered" (a script run has ended and
                 \*   the page waits for the user) | "rerun" (st.rerun())
    chat_history,   \* st.session_state.chat_history
    current_preset, \* st.session_state.current_preset
    selected_tab,   \* st.session_state.selected_tab
    whatif_sex,     \* st.session_state.whatif_sex: <<label, value>>
    whatif_pclass,  \* st.session_state.whatif_pclass: <<label, value>>
    whatif_age,     \* st.session_state.whatif_age
    whatif_fare,    \* st.session_state.whatif_fare
    whatif_updates, \* st.session_state.whatif_updates: a dict, or None
    a_widgets_saw,  \* whatif_updates as it was when the what-if widgets
                    \*   of the last script run were created
    a_turn,      \* the last handled turn (what was asked, what the
                 \*   handler called), or None
    a_turns,     \* turns handled so far (capped)
    tutorial_active,   \* st.session_state.tutorial_active
    tutorial_step,     \* st.session_state.tutorial_step
    has_seen_tutorial, \* st.session_state.has_seen_tutorial
    u_last,      \* tutorial: the function called last, or None
    u_calls      \* tutorial functions called so far (capped)

m_vars == <<m_pc, m_profile, m_result, m_prev, m_calls>>
q_vars == <<q_pc, query_text, parsed>>
t_vars == <<t_pc, model, trees, st_tree, whatif_values, py_path, js_path,
            prediction>>
b_vars == <<b_started, b_cache, b_trainings, b_seen, b_callers,
            b_tree_response, b_response, b_calls>>
a_vars == <<a_pc, chat_history, current_preset, selected_tab, whatif_sex,
            whatif_pclass, whatif_age, whatif_fare, whatif_updates,
            a_widgets_saw, a_turn, a_turns>>
u_vars == <<tutorial_active, tutorial_step, has_seen_tutorial, u_last,
            u_calls>>
vars == <<m_vars, q_vars, t_vars, b_vars, a_vars, u_vars>>

\* Python's None, one value per type of the slot it fills (TLC compares only
\* values of one type): among strings, among integers, among dicts.
None == "None"
NoneInt == -1
NoneDict == [none |-> TRUE]

-----------------------------------------------------------------------------
(* Bounds of the model.                                                    *)

\* ages 0..MaxAge are given to match_to_cohort (both sides of the 12/13 edge)
MaxAge == 13
\* match_to_cohort calls made in one run
MaxCalls == 2
\* words joined into one of the longer generated query texts
MaxWords == 3
MaxInternal == 2
MaxConversions == 2
\* requests the backend handles in one run
MaxRequests == 3
\* chat inputs and preset clicks handled in one run of the app
MaxTurns == 2
\* calls of the tutorial functions in one run
MaxTutorialCalls == 4

-----------------------------------------------------------------------------
(* cohort_patterns.py: the rule table, in registration (dict) order.       *)

COHORT_PATTERNS ==
    << [name |-> "first_class_child", priority |-> 3,
        match_criteria |-> [pclass |-> 1, age_range |-> <<0, 12>>],
        response |-> "First class children had the best odds."],
       [name |-> "third_class_male", priority |-> 2,
        match_criteria |-> [sex |-> 1, pclass |-> 3],
        response |-> "Third class males had the worst odds (24% survival rate)."],
       [name |-> "women", priority |-> 1,
        match_criteria |-> [sex |-> 0],
        response |-> "Women had a 74% survival rate."],
       [name |-> "men", priority |-> 1,
        match_criteria |-> [sex |-> 1],
        response |-> "Men had only a 19% survival rate (109 survived out of 577)."],
       [name |-> "first_class", priority |-> 2,
        match_criteria |-> [pclass |-> 1],
        response |-> "First class passengers had a 63% survival rate (136 survived out of 216)."],
       [name |-> "third_class", priority |-> 2,
        match_criteria |-> [pclass |-> 3],
        response |-> "Third class passengers had the worst odds (119 survived out of 491, 24% survival rate)."] >>

CohortNames == { COHORT_PATTERNS[i].name : i \in 1..Len(COHORT_PATTERNS) }

\* the generic fallback of match_to_cohort
fallback == [response |-> "Here's the analysis for this passenger profile."]

-----------------------------------------------------------------------------
(* match_to_cohort                                                         *)

\* One insertion of Python's stable sort with reverse=True: x goes behind
\* every element already placed whose key is greater than or equal to its own.
InsertByPriority(x, s) ==
    LET before == { i \in 1..Len(s) : s[i].priority >= x.priority }
        k == IF before = {} THEN 0
             ELSE CHOOSE i \in before : \A j \in before : j <= i
    IN  SubSeq(s, 1, k) \o <<x>> \o SubSeq(s, k + 1, Len(s))

RECURSIVE SortFrom(_, _, _)
SortFrom(items, i, acc) ==
    IF i > Len(items) THEN acc
    ELSE SortFrom(items, i + 1, InsertByPriority(items[i], acc))

\* A sort whose order among equal priorities changes from call to call
\* (ties not broken by registration order).
InsertByPriorityUnstable(x, s) ==
    LET before == { i \in 1..Len(s) :
                      IF m_calls % 2 = 0 THEN s[i].priority >= x.priority
                                         ELSE s[i].priority > x.priority }
        k == IF before = {} THEN 0
             ELSE CHOOSE i \in before : \A j \in before : j <= i
    IN  SubSeq(s, 1, k) \o <<x>> \o SubSeq(s, k + 1, Len(s))

RECURSIVE SortFromUnstable(_, _, _)
SortFromUnstable(items, i, acc) ==
    IF i > Len(items) THEN acc
    ELSE SortFromUnstable(items, i + 1, InsertByPriorityUnstable(items[i], acc))

sorted_cohorts_hash_order == SortFromUnstable(COHORT_PATTERNS, 1, <<>>)

\* An ascending sort read backwards: equal priorities come out in reverse
\* registration order.
RECURSIVE ReverseSeq(_)
ReverseSeq(s) == IF s = <<>> THEN <<>> ELSE ReverseSeq(Tail(s)) \o <<Head(s)>>

InsertAscending(x, s) ==
    LET before == { i \in 1..Len(s) : s[i].priority <= x.priority }
        k == IF before = {} THEN 0
             ELSE CHOOSE i \in before : \A j \in before : j <= i
    IN  SubSeq(s, 1, k) \o <<x>> \o SubSeq(s, k + 1, Len(s))

RECURSIVE SortAscendingFrom(_, _, _)
SortAscendingFrom(items, i, acc) ==
    IF i > Len(items) THEN acc
    ELSE SortAscendingFrom(items, i + 1, InsertAscending(items[i], acc))

sorted_cohorts_reversed_ties == ReverseSeq(SortAscendingFrom(COHORT_PATTERNS, 1, <<>>))

\* The table in registration order, never sorted.
sorted_cohorts_unsorted == COHORT_PATTERNS

\* sorted(COHORT_PATTERNS.items(), key=priority, reverse=True)
sorted_cohorts == SortFrom(COHORT_PATTERNS, 1, <<>>)

\* The age check with an exclusive upper end.
criteria_hold_exclusive(criteria, sex, pclass, age) ==
    /\ ("sex" \in DOMAIN criteria => criteria.sex = sex)
    /\ ("pclass" \in DOMAIN criteria => criteria.pclass = pclass)
    /\ ("age_range" \in DOMAIN criteria =>
            (criteria.age_range[1] <= age /\ age < criteria.age_range[2]))

\* The three checks of one loop iteration: no `continue` is taken.
criteria_hold(criteria, sex, pclass, age) ==
    /\ ("sex" \in DOMAIN criteria => criteria.sex = sex)
    /\ ("pclass" \in DOMAIN criteria => criteria.pclass = pclass)
    /\ ("age_range" \in DOMAIN criteria =>
            (criteria.age_range[1] <= age /\ age <= criteria.age_range[2]))

\* The for loop from position i on: the first rule that holds is returned,
\* the fallback when the loop runs off the end.
RECURSIVE match_loop(_, _, _, _, _)
match_loop(cohorts, i, sex, pclass, age) ==
    IF i > Len(cohorts) THEN <<None, fallback>>
    ELSE IF criteria_hold(cohorts[i].match_criteria, sex, pclass, age)
         THEN <<cohorts[i].name, cohorts[i]>>
         ELSE match_loop(cohorts, i + 1, sex, pclass, age)

\* The class taken from the fare when the fare is a first-class fare.
match_to_cohort_by_fare(sex, pclass, age, fare) ==
    match_loop(sorted_cohorts, 1, sex, IF fare >= 84 THEN 1 ELSE pclass, age)

match_to_cohort(sex, pclass, age, fare) ==
    match_loop(sorted_cohorts, 1, sex, pclass, age)

-----------------------------------------------------------------------------
(* Text: a Python str is a TLA+ string; s[i] is CharAt(s, i).              *)

CharAt(s, i) == SubSeq(s, i, i)

\* Python's `needle in text`
Contains(text, needle) ==
    \E i \in 1..(Len(text) - Len(needle) + 1) :
        SubSeq(text, i, i + Len(needle) - 1) = needle

UpperCase == "ABCDEFGHIJKLMNOPQRSTUVWXYZ"
LowerCase == "abcdefghijklmnopqrstuvwxyz"
Digits == "0123456789"

UpperChars == { CharAt(UpperCase, i) : i \in 1..Len(UpperCase) }
LowerChars == { CharAt(LowerCase, i) : i \in 1..Len(LowerCase) }
DigitChars == { CharAt(Digits, i) : i \in 1..Len(Digits) }

IsUpper(c) == c \in UpperChars
IsLower(c) == c \in LowerChars
IsDigit(c) == c \in DigitChars

LowerOf ==
    [c \in UpperChars |->
        CharAt(LowerCase, CHOOSE i \in 1..Len(UpperCase) : CharAt(UpperCase, i) = c)]

DigitValue ==
    [c \in DigitChars |-> CHOOSE d \in 0..9 : CharAt(Digits, d + 1) = c]

LowerChar(c) == IF IsUpper(c) THEN LowerOf[c] ELSE c

\* str.lower()
RECURSIVE lower(_)
lower(s) ==
    IF Len(s) = 0 THEN ""
    ELSE lower(SubSeq(s, 1, Len(s) - 1)) \o LowerChar(CharAt(s, Len(s)))

\* int() of a string of decimal digits
RECURSIVE int(_)
int(s) ==
    IF Len(s) = 0 THEN 0
    ELSE 10 * int(SubSeq(s, 1, Len(s) - 1)) + DigitValue[CharAt(s, Len(s))]

-----------------------------------------------------------------------------
(* The regular expression  \b(\d+)[\s-]*(year|yr|y\.o\.|old)?\b            *)

\* \w
IsWordChar(c) == IsLower(c) \/ IsUpper(c) \/ IsDigit(c) \/ c = "_"

\* [\s-]
IsSepChar(c) == c \in {" ", "\t", "\n", "\r", "-"}

WordAt(t, i) == i >= 1 /\ i <= Len(t) /\ IsWordChar(CharAt(t, i))

\* \b between character p - 1 and character p
Boundary(t, p) == WordAt(t, p - 1) # WordAt(t, p)

\* (year|yr|y\.o\.|old)? : the alternatives, and "" for the skipped group
Units == {"year", "yr", "y.o.", "old", ""}

\* the literal u is read at position p
LiteralAt(t, p, u) ==
    \/ Len(u) = 0
    \/ /\ p + Len(u) - 1 <= Len(t)
       /\ SubSeq(t, p, p + Len(u) - 1) = u

\* The pattern without its closing \b.
RestMatchesNoClosingBoundary(t, j) ==
    \E s \in j..Len(t) :
        /\ \A k \in (j + 1)..s : IsSepChar(CharAt(t, k))
        /\ \E u \in Units : LiteralAt(t, s + 1, u)

\* The rest of the pattern after (\d+) has ended at position j: some run of
\* separators, an optional unit, and a closing \b.
RestMatches(t, j) ==
    \E s \in j..Len(t) :
        /\ \A k \in (j + 1)..s : IsSepChar(CharAt(t, k))
        /\ \E u \in Units :
              /\ LiteralAt(t, s + 1, u)
              /\ Boundary(t, s + Len(u) + 1)

\* Ends j of group 1 for which the pattern matches from position i.
GroupEnds(t, i) ==
    { j \in i..Len(t) :
        /\ \A k \in i..j : IsDigit(CharAt(t, k))
        /\ RestMatches(t, j) }

MatchesAt(t, i) == Boundary(t, i) /\ GroupEnds(t, i) # {}

\* re.search: group(1) of the leftmost match (\d+ is greedy), or None.
age_match(t) ==
    LET starts == { i \in 1..Len(t) : MatchesAt(t, i) }
    IN  IF starts = {} THEN None
        ELSE LET i == CHOOSE a \in starts : \A b \in starts : a <= b
                 j == CHOOSE a \in GroupEnds(t, i) :
                          \A b \in GroupEnds(t, i) : b <= a
             IN  SubSeq(t, i, j)

-----------------------------------------------------------------------------
(* parse_passenger_query                                                   *)

FemaleWords == {"woman", "women", "female", "lady", "ladies", "girl"}
MaleWords == {"man", "men", "male", "gentleman", "boy"}
Class1Phrases == {"1st class", "first class", "upper class", "wealthy", "rich"}
Class2Phrases == {"2nd class", "second class", "middle class"}
Class3Phrases == {"3rd class", "third class", "lower class", "poor", "cheap"}
ChildWords == {"child", "children", "kid", "young", "baby", "infant"}
ElderlyWords == {"elderly", "senior", "older", "old"}
AdultWords == {"adult", "middle-aged", "middle aged"}

\* any(word in query_lower for word in words)
AnyIn(words, query_lower) == \E w \in words : Contains(query_lower, w)

\* The male words tested before the female ones.
parse_sex_male_first(query_lower) ==
    IF AnyIn(MaleWords, query_lower) THEN 1
    ELSE IF AnyIn(FemaleWords, query_lower) THEN 0
    ELSE NoneInt

parse_sex(query_lower) ==
    IF AnyIn(FemaleWords, query_lower) THEN 0
    ELSE IF AnyIn(MaleWords, query_lower) THEN 1
    ELSE NoneInt

\* The class groups tested in the order 3, 2, 1.
parse_class_third_first(query_lower) ==
    IF AnyIn(Class3Phrases, query_lower) THEN 3
    ELSE IF AnyIn(Class2Phrases, query_lower) THEN 2
    ELSE IF AnyIn(Class1Phrases, query_lower) THEN 1
    ELSE NoneInt

parse_class(query_lower) ==
    IF AnyIn(Class1Phrases, query_lower) THEN 1
    ELSE IF AnyIn(Class2Phrases, query_lower) THEN 2
    ELSE IF AnyIn(Class3Phrases, query_lower) THEN 3
    ELSE NoneInt

\* The number extracted before the keywords are looked at.
parse_age_number_first(query_lower) ==
    IF age_match(query_lower) # None THEN int(age_match(query_lower))
    ELSE IF AnyIn(ChildWords, query_lower) THEN 8
    ELSE IF AnyIn(ElderlyWords, query_lower) THEN 65
    ELSE IF AnyIn(AdultWords, query_lower) THEN 35
    ELSE 30

\* the age block, the default of 30 included
parse_age(query_lower) ==
    IF AnyIn(ChildWords, query_lower) THEN 8
    ELSE IF AnyIn(ElderlyWords, query_lower) THEN 65
    ELSE IF AnyIn(AdultWords, query_lower) THEN 35
    ELSE IF age_match(query_lower) # None THEN int(age_match(query_lower))
    ELSE 30

\* The fares of class 2 and class 3 exchanged.
class_fare_exchanged(pclass) ==
    IF pclass = 1 THEN 84
    ELSE IF pclass = 2 THEN 13
    ELSE IF pclass = 3 THEN 20
    ELSE NoneInt

class_fare(pclass) ==
    IF pclass = 1 THEN 84
    ELSE IF pclass = 2 THEN 20
    ELSE IF pclass = 3 THEN 13
    ELSE NoneInt

\* The gate with `or`: both sex and class are required.
is_unparsable_either(sex, pclass) == sex = NoneInt \/ pclass = NoneInt

\* `if sex is None and pclass is None: return None`
is_unparsable(sex, pclass) == sex = NoneInt /\ pclass = NoneInt

parse_passenger_query(text) ==
    LET query_lower == lower(text)
        sex == parse_sex(query_lower)
        pclass == parse_class(query_lower)
        age == parse_age(query_lower)
        fare == class_fare(pclass)
    IN  IF is_unparsable(sex, pclass) THEN NoneDict
        ELSE [sex |-> IF sex = NoneInt THEN 0 ELSE sex,
              pclass |-> IF pclass = NoneInt THEN 2 ELSE pclass,
              age |-> age,
              fare |-> IF fare = NoneInt THEN 20 ELSE fare]

-----------------------------------------------------------------------------
(* The decision tree:                                                      *)
(*   src/backend/models/decision_tree.py   sklearn_tree_to_dict of the API *)
(*   src/src/tree_data.py                  sklearn_tree_to_dict of the     *)
(*                                         Streamlit app                   *)
(*   src/src/pages/decision_tree.py        trace_path                      *)
(*   src/src/visualizations/decision_tree_viz.py   tracePath (JavaScript)  *)
(* A trained model is the record of the arrays of sklearn's tree_; node i  *)
(* is at index i + 1 of each array.  A float is written in halves (1.5 is  *)
(* 3): a threshold is the midpoint of two adjacent feature values, and the *)
(* feature values of the model are whole.  value[i] holds the per-class    *)
(* sample counts of node i.  The rounded float 'probability' of a node is  *)
(* left out; no property below reads it.  The sign of f-strings written    *)
(* with U+2264 is written "<=".                                            *)

\* sklearn's sentinels: the child of a leaf; the feature of a leaf
TREE_LEAF == -1
TREE_UNDEFINED == -2

\* the float x in halves
Halves(x) == 2 * x

\* an optional float: float(x), or None
Float(x) == <<x>>
NoneFloat == <<>>

\* load_titanic_data: the feature list and the keys of label_encoders
features == <<"sex", "pclass", "age", "fare">>
label_encoders == {"sex"}

\* array[node_id] of a zero-based array
At(array, node_id) == array[node_id + 1]

\* f"{threshold:.1f}" and f"{threshold:.2f}"
format_float(threshold, digits) ==
    LET magnitude == IF threshold < 0 THEN -threshold ELSE threshold
    IN  (IF threshold < 0 THEN "-" ELSE "")
        \o ToString(magnitude \div 2) \o "."
        \o (IF magnitude % 2 = 1 THEN "5" ELSE "0")
        \o (IF digits = 2 THEN "0" ELSE "")

\* Survived wins a tie.
predicted_class_ties_survived(class_0_count, class_1_count) ==
    IF class_1_count >= class_0_count THEN 1 ELSE 0

\* predicted_class = 1 if class_1_count > class_0_count else 0
predicted_class(class_0_count, class_1_count) ==
    IF class_1_count > class_0_count THEN 1 ELSE 0

\* Ids counted from one.
int_node_id_one_based(node_id) == node_id + 1

\* Ids numbered on from the conversions made before.
int_node_id_numbered_on(node_id) == node_id + Len(trees)

\* 'id': int(node_id)
int_node_id(node_id) == node_id

\* The right child taken first.
children_right_first(tree, node_id) ==
    <<At(tree.children_right, node_id), At(tree.children_left, node_id)>>

\* left_child, right_child of the node
children_of(tree, node_id) ==
    <<At(tree.children_left, node_id), At(tree.children_right, node_id)>>

\* tree_.feature[node_id] == -2
is_leaf(tree, node_id) == At(tree.feature, node_id) = TREE_UNDEFINED

\* feature_names[tree_.feature[node_id]] if tree_.feature[node_id] != -2
\* else None
feature_name_of(tree, feature_names, node_id) ==
    IF At(tree.feature, node_id) # TREE_UNDEFINED
    THEN feature_names[At(tree.feature, node_id) + 1]
    ELSE None

\* float(threshold) if threshold != -2 else None
threshold_of(tree, node_id) ==
    IF At(tree.threshold, node_id) # Halves(-2)
    THEN Float(At(tree.threshold, node_id))
    ELSE NoneFloat

\* backend: node_data before the children and the texts are added
node_data(tree, feature_names, node_id) ==
    LET value == At(tree.value, node_id)
        samples == At(tree.n_node_samples, node_id)
        class_0_count == value[1]
        class_1_count == value[2]
    IN  [id |-> int_node_id(node_id),
         feature |-> feature_name_of(tree, feature_names, node_id),
         threshold |-> threshold_of(tree, node_id),
         samples |-> samples,
         class_0 |-> class_0_count,
         class_1 |-> class_1_count,
         predicted_class |-> predicted_class(class_0_count, class_1_count),
         is_leaf |-> is_leaf(tree, node_id)]

\* Streamlit: the counts are value * samples
tree_data_node_data(tree, feature_names, node_id) ==
    LET value == At(tree.value, node_id)
        samples == At(tree.n_node_samples, node_id)
        class_0_count == value[1] * samples
        class_1_count == value[2] * samples
    IN  [id |-> int_node_id(node_id),
         feature |-> feature_name_of(tree, feature_names, node_id),
         threshold |-> threshold_of(tree, node_id),
         samples |-> samples,
         class_0 |-> class_0_count,
         class_1 |-> class_1_count,
         predicted_class |-> predicted_class(class_0_count, class_1_count),
         is_leaf |-> is_leaf(tree, node_id)]

no_labels == [key \in {} |-> ""]

numeric_labels(threshold) ==
    [left_label |-> "<= " \o format_float(threshold, 1),
     right_label |-> "> " \o format_float(threshold, 1)]

\* backend: the labels of the two edges of an internal node
branch_labels(feature_name, threshold, encoders) ==
    IF feature_name \in encoders
    THEN IF feature_name = "sex"
         THEN [left_label |-> "female", right_label |-> "male"]
         ELSE no_labels
    ELSE IF feature_name = "pclass"
    THEN IF threshold <= Halves(1) + 1
         THEN [left_label |-> "1st class", right_label |-> "2nd & 3rd class"]
         ELSE IF threshold <= Halves(2) + 1
         THEN [left_label |-> "1st & 2nd class", right_label |-> "3rd class"]
         ELSE numeric_labels(threshold)
    ELSE numeric_labels(threshold)

\* Streamlit: the labels of the two edges; the branch of 'embarked' is not
\* taken, the feature list has no such feature
tree_data_branch_labels(feature_name, threshold, encoders) ==
    IF feature_name \in encoders
    THEN IF feature_name = "sex"
         THEN [left_label |-> "female", right_label |-> "male"]
         ELSE no_labels
    ELSE numeric_labels(threshold)

leaf_rule(node) ==
    "Predict: " \o (IF node.predicted_class = 1 THEN "Survived" ELSE "Died")

split_rule(feature_name, threshold) ==
    feature_name \o " <= " \o format_float(threshold, 2)

\* backend/models/decision_tree.py
RECURSIVE sklearn_tree_to_dict(_, _, _, _)
sklearn_tree_to_dict(tree, feature_names, node_id, encoders) ==
    LET data == node_data(tree, feature_names, node_id)
        threshold == At(tree.threshold, node_id)
        child == children_of(tree, node_id)
    IN  IF At(tree.feature, node_id) # TREE_UNDEFINED
        THEN data
             @@ [children |->
                   <<sklearn_tree_to_dict(tree, feature_names, child[1],
                                          encoders),
                     sklearn_tree_to_dict(tree, feature_names, child[2],
                                          encoders)>>,
                 split_rule |-> split_rule(data.feature, threshold)]
             @@ branch_labels(data.feature, threshold, encoders)
        ELSE data @@ [split_rule |-> leaf_rule(data)]

\* src/tree_data.py
RECURSIVE tree_data_sklearn_tree_to_dict(_, _, _, _)
tree_data_sklearn_tree_to_dict(tree, feature_names, node_id, encoders) ==
    LET data == tree_data_node_data(tree, feature_names, node_id)
        threshold == At(tree.threshold, node_id)
        child == children_of(tree, node_id)
    IN  IF At(tree.feature, node_id) # TREE_UNDEFINED
        THEN data
             @@ [children |->
                   <<tree_data_sklearn_tree_to_dict(tree, feature_names,
                                                    child[1], encoders),
                     tree_data_sklearn_tree_to_dict(tree, feature_names,
                                                    child[2], encoders)>>,
                 split_rule |-> split_rule(data.feature, threshold)]
             @@ tree_data_branch_labels(data.feature, threshold, encoders)
        ELSE data @@ [split_rule |-> leaf_rule(data)]

\* The comparison made strict.
at_most_strict(value, threshold) == Halves(value) < threshold

\* input_values[feature] <= threshold
at_most(value, threshold) == Halves(value) <= threshold

\* pages/decision_tree.py: the while loop of trace_path; the result is the
\* returned path, or the exception that ends the call
RECURSIVE trace_path_from(_, _, _)
trace_path_from(current_node, input_values, path) ==
    LET path_ == Append(path, current_node.id)
        feature == current_node.feature
        threshold == current_node.threshold
    IN  IF current_node.is_leaf THEN [path |-> path_]
        ELSE IF feature \notin DOMAIN input_values
        THEN [raised |-> "KeyError"]
        ELSE IF threshold = NoneFloat
        THEN [raised |-> "TypeError"]
        ELSE IF "children" \notin DOMAIN current_node
        THEN [path |-> path_]
        ELSE IF at_most(input_values[feature], threshold[1])
        THEN trace_path_from(current_node.children[1], input_values, path_)
        ELSE trace_path_from(current_node.children[2], input_values, path_)

trace_path(tree_dict, input_values) ==
    trace_path_from(tree_dict, input_values, <<>>)

\* JavaScript's inputValues[feature] <= threshold: undefined compares false
\* with every number, null counts as 0
js_at_most(inputValues, feature, threshold) ==
    IF feature \notin DOMAIN inputValues THEN FALSE
    ELSE IF threshold = NoneFloat THEN inputValues[feature] <= 0
    ELSE Halves(inputValues[feature]) <= threshold[1]

\* decision_tree_viz.py: the while loop of tracePath
RECURSIVE tracePath_from(_, _, _)
tracePath_from(current, inputValues, path) ==
    LET path_ == Append(path, current.id)
    IN  IF current.is_leaf THEN [path |-> path_]
        ELSE IF "children" \notin DOMAIN current
        THEN [path |-> path_]
        ELSE IF js_at_most(inputValues, current.feature, current.threshold)
        THEN tracePath_from(current.children[1], inputValues, path_)
        ELSE tracePath_from(current.children[2], inputValues, path_)

tracePath(node, inputValues) == tracePath_from(node, inputValues, <<>>)

\* The model's comparison made strict.
tree_at_most_strict(X, tree, node) ==
    Halves(X[At(tree.feature, node) + 1]) < At(tree.threshold, node)

\* sklearn: X[feature[node]] <= threshold[node]
tree_at_most(X, tree, node) ==
    Halves(X[At(tree.feature, node) + 1]) <= At(tree.threshold, node)

\* sklearn: the nodes the row X passes, from node down to its leaf
RECURSIVE passed_nodes(_, _, _)
passed_nodes(tree, X, node) ==
    IF At(tree.children_left, node) = TREE_LEAF THEN {node}
    ELSE IF tree_at_most(X, tree, node)
    THEN {node} \cup passed_nodes(tree, X, At(tree.children_left, node))
    ELSE {node} \cup passed_nodes(tree, X, At(tree.children_right, node))

\* model.decision_path(input_data): the indicator of the passed nodes
decision_path(tree, X) == passed_nodes(tree, X, 0)

\* model.apply(input_data)[0]: the leaf the row ends in
RECURSIVE apply_from(_, _, _)
apply_from(tree, X, node) ==
    IF At(tree.children_left, node) = TREE_LEAF THEN node
    ELSE IF tree_at_most(X, tree, node)
    THEN apply_from(tree, X, At(tree.children_left, node))
    ELSE apply_from(tree, X, At(tree.children_right, node))

apply(tree, X) == apply_from(tree, X, 0)

\* The marked nodes listed from the highest id down.
RECURSIVE enumerate_ones_descending(_)
enumerate_ones_descending(node_indicator) ==
    IF node_indicator = {} THEN <<>>
    ELSE LET i == CHOOSE n \in node_indicator :
                      \A other \in node_indicator : n >= other
         IN  <<i>> \o enumerate_ones_descending(node_indicator \ {i})

\* [i for i, v in enumerate(node_indicator) if v == 1]
RECURSIVE enumerate_ones(_)
enumerate_ones(node_indicator) ==
    IF node_indicator = {} THEN <<>>
    ELSE LET i == CHOOSE n \in node_indicator :
                      \A other \in node_indicator : n <= other
         IN  <<i>> \o enumerate_ones(node_indicator \ {i})

\* predict_single: the leaf and the path of the row
predict_single(tree, sex, pclass, age, fare) ==
    LET input_data == <<sex, pclass, age, fare>>
    IN  [leaf_node_id |-> apply(tree, input_data),
         path_nodes |-> enumerate_ones(decision_path(tree, input_data))]

-----------------------------------------------------------------------------
(* backend/routes/predict.py and backend/models/decision_tree.py: request  *)
(* validation and the cached model.                                        *)

\* PassengerInput: the Field(...) constraints of the four required fields
\* (le is None where the field has no upper limit)
PassengerInput ==
    << [name |-> "sex", ge |-> 0, le |-> 1],
       [name |-> "pclass", ge |-> 1, le |-> 3],
       [name |-> "age", ge |-> 0, le |-> 100],
       [name |-> "fare", ge |-> 0, le |-> NoneInt] >>

field_constraints_exclusive_le(field, v) ==
    /\ v >= field.ge
    /\ field.le # NoneInt => v < field.le

\* ge= and le= of a Field
field_constraints(field, v) ==
    /\ v >= field.ge
    /\ field.le # NoneInt => v <= field.le

\* the @validator methods validate_sex, validate_pclass, validate_age and
\* validate_fare: TRUE where they return v, FALSE where they raise ValueError
validator(name, v) ==
    CASE name = "sex" -> v \in {0, 1}
      [] name = "pclass" -> v \in {1, 2, 3}
      [] name = "age" -> ~(v < 0)
      [] name = "fare" -> ~(v < 0)

\* The fields of a request body that fail validation: a required field
\* that is missing, a value outside ge/le, or one its validator refuses.
validation_errors(body) ==
    { PassengerInput[i].name : i \in
        { j \in DOMAIN PassengerInput :
            LET field == PassengerInput[j]
            IN  \/ field.name \notin DOMAIN body
                \/ ~field_constraints(field, body[field.name])
                \/ ~validator(field.name, body[field.name]) } }

lru_cache_never_hits(cache) == FALSE

\* functools.lru_cache(maxsize=1) on a function without arguments: a hit
\* once the one entry is stored
lru_cache_hits(cache) == cache # NoneDict

\* get_trained_model() under its lru_cache: the entry on a hit; on a miss
\* the body runs (fitted is what train_decision_tree returns), converts the
\* tree and the result is stored.  The result carries the identity of the
\* returned dictionary (instance).
get_trained_model(cache, trainings, fitted) ==
    IF lru_cache_hits(cache)
    THEN [returned |-> cache, cache |-> cache, trainings |-> trainings]
    ELSE LET tree_data ==
                 [instance |-> trainings + 1,
                  tree |-> sklearn_tree_to_dict(fitted, features, 0,
                                                label_encoders),
                  model |-> fitted]
         IN  [returned |-> tree_data, cache |-> tree_data,
              trainings |-> trainings + 1]

-----------------------------------------------------------------------------
(* app.py and response_generator.py: the session state of the Streamlit    *)
(* app and update_whatif_and_respond (app.py holds its own copy of the     *)
(* chat functions, with the same bodies).                                  *)

\* the two options of the tab radio
TAB_DECISION_TREE == "DECISION TREE  Accuracy: 81% | Recall: 60%"
TAB_XGBOOST == "XGBOOST  Accuracy: 80% | Recall: 72%"

\* presets of app.py, in dict order
presets ==
    << [key |-> "woman_path", label |-> "Women's path (high survival)",
        values |-> [sex |-> 0, pclass |-> 2, age |-> 30, fare |-> 20]],
       [key |-> "man_path", label |-> "Men's path (low survival)",
        values |-> [sex |-> 1, pclass |-> 3, age |-> 30, fare |-> 13]],
       [key |-> "first_class_child",
        label |-> "1st class child (best odds)",
        values |-> [sex |-> 0, pclass |-> 1, age |-> 5, fare |-> 84]],
       [key |-> "third_class_male",
        label |-> "3rd class male (worst odds)",
        values |-> [sex |-> 1, pclass |-> 3, age |-> 40, fare |-> 8]] >>

\* the first entry of the transcript and the answer to an unparsable text
\* (both abridged)
GREETING == "Ask a question - I'll navigate the models for you"
GUIDANCE == "I couldn't parse that query. Try asking about specific passengers like: 'show me a woman in 1st class'"

\* format_passenger_description (the pound sign is left out of the text)
format_passenger_description(sex, pclass, age, fare) ==
    LET sex_label == IF sex = 0 THEN "female" ELSE "male"
        class_label == CASE pclass = 1 -> "1st class"
                         [] pclass = 2 -> "2nd class"
                         [] pclass = 3 -> "3rd class"
    IN  ToString(age) \o "-year-old " \o sex_label \o " in " \o class_label
        \o ", " \o ToString(fare) \o " fare"

\* `"XGBOOST" in st.session_state.selected_tab`
xgboost_tab(tab) == tab = TAB_XGBOOST

\* response_template.format(passenger_desc=...): the 'response' templates
\* hold no field; the 'xgb_response' templates (abridged) name the passenger
\* after the statistic
response_text(info, tab, passenger_desc) ==
    IF xgboost_tab(tab)
    THEN info.response \o " Analyzing this passenger: " \o passenger_desc
         \o "."
    ELSE info.response

\* the transcript rewritten instead of extended: only the last turn is kept
append_messages_replacing(history, user_message, text) ==
    << history[1],
       [role |-> "user", content |-> user_message],
       [role |-> "assistant", content |-> text] >>

\* two chat_history.append calls: the user message, then the answer
append_messages(history, user_message, text) ==
    Append(Append(history, [role |-> "user", content |-> user_message]),
           [role |-> "assistant", content |-> text])

guidance_messages_answer_only(history, user_input) ==
    Append(history, [role |-> "assistant", content |-> GUIDANCE])

\* the else branch of the chat handler: the text and the guidance message
guidance_messages(history, user_input) ==
    append_messages(history, user_input, GUIDANCE)

\* the dict update_whatif_and_respond stores in whatif_updates
pending_update(sex, pclass, age, fare) ==
    [sex |-> IF sex = 0 THEN <<"Female", 0>> ELSE <<"Male", 1>>,
     pclass |-> <<pclass, pclass>>,
     age |-> age,
     fare |-> fare]

pending_never(updates) == FALSE

\* `'whatif_updates' in st.session_state and st.session_state.whatif_updates`
pending(updates) == updates # NoneDict

\* The block that applies a pending update before the widgets are created:
\* the value a what-if key holds after it, and whatif_updates after it.
after_block(updates, key, value) ==
    IF pending(updates) THEN updates[key] ELSE value

updates_after_block(updates) ==
    IF pending(updates) THEN NoneDict ELSE updates

\* update_fare_for_class: class_avg_fares[selected_pclass]
class_avg_fares(selected_pclass) ==
    CASE selected_pclass = 1 -> 84
      [] selected_pclass = 2 -> 20
      [] selected_pclass = 3 -> 13

-----------------------------------------------------------------------------
(* tutorial.py: the guided tutorial.                                       *)

TUTORIAL_PASSENGER == [sex |-> 0, pclass |-> 1, age |-> 30, fare |-> 84]

\* TUTORIAL_STEPS: the messages of the three steps (abridged)
TUTORIAL_STEPS ==
    [step_num \in {0, 1, 2} |->
       [tree_message |->
            CASE step_num = 0 -> "Welcome to the Explainable AI Explorer! Let me show you how these models make predictions."
              [] step_num = 1 -> "First, the decision tree splits on sex."
              [] step_num = 2 -> "Following this path leads to a 78% survival probability for women in 1st class.",
        xgb_message |->
            CASE step_num = 0 -> "Welcome to the Explainable AI Explorer! Let me show you how XGBoost explains its predictions using SHAP values."
              [] step_num = 1 -> "Look at the waterfall chart above."
              [] step_num = 2 -> "The final prediction combines all features.",
        whatif_values |-> TUTORIAL_PASSENGER]]

TUTORIAL_SKIPPED == "Tutorial skipped. Feel free to explore on your own using the preset buttons, chat, or What-If controls!"
TUTORIAL_COMPLETE == "Tutorial complete! You're ready to explore. Try the preset buttons or ask questions in the chat."

\* should_auto_start_tutorial
should_auto_start_tutorial(has_seen, active) == ~has_seen /\ ~active

\* get_current_tab_type
get_current_tab_type(tab) ==
    IF tab = TAB_DECISION_TREE THEN "tree" ELSE "xgb"

\* get_tutorial_message
get_tutorial_message(step_num, tab) ==
    IF get_current_tab_type(tab) = "tree"
    THEN TUTORIAL_STEPS[step_num].tree_message
    ELSE TUTORIAL_STEPS[step_num].xgb_message

can_advance_below_one(current_step) == current_step < 1

\* advance_tutorial: `if current_step < 2`
can_advance(current_step) == current_step < 2

-----------------------------------------------------------------------------
(* Initial state: nothing was called yet.                                  *)

MInit ==
    /\ m_pc = "idle"
    /\ m_profile = NoneDict
    /\ m_result = <<None, NoneDict>>
    /\ m_prev = <<>>
    /\ m_calls = 0

QInit ==
    /\ q_pc = "idle"
    /\ query_text = ""
    /\ parsed = NoneDict

TInit ==
    /\ t_pc = "untrained"
    /\ model = NoneDict
    /\ trees = <<>>
    /\ st_tree = NoneDict
    /\ whatif_values = NoneDict
    /\ py_path = NoneDict
    /\ js_path = NoneDict
    /\ prediction = NoneDict

\* the backend process before its startup: both caches empty
BInit ==
    /\ b_started = FALSE
    /\ b_cache = NoneDict
    /\ b_trainings = 0
    /\ b_seen = {}
    /\ b_callers = {}
    /\ b_tree_response = NoneDict
    /\ b_response = NoneDict
    /\ b_calls = 0

\* the session state after the first script run of a session
AInit ==
    /\ a_pc = "rendered"
    /\ chat_history = << [role |-> "assistant", content |-> GREETING] >>
    /\ current_preset = None
    /\ selected_tab = TAB_DECISION_TREE
    /\ whatif_sex = <<"Female", 0>>
    /\ whatif_pclass = <<2, 2>>
    /\ whatif_age = 30
    /\ whatif_fare = 15
    /\ whatif_updates = NoneDict
    /\ a_widgets_saw = NoneDict
    /\ a_turn = NoneDict
    /\ a_turns = 0

\* initialize_tutorial_state on a new session
UInit ==
    /\ tutorial_active = FALSE
    /\ tutorial_step = 0
    /\ has_seen_tutorial = FALSE
    /\ u_last = None
    /\ u_calls = 0

Init == MInit /\ QInit /\ TInit /\ BInit /\ AInit /\ UInit

-----------------------------------------------------------------------------
(* Harness of match_to_cohort: profiles as the app builds them.            *)

Sexes == {0, 1}
Classes == {1, 2, 3}
\* ages around the child boundary, and ages of presets and parser
Ages == (0..MaxAge) \cup {30, 40, 65}
\* the 8.0 of the third_class_male preset and the first-class average
Fares == {8, 84}

Profiles == [sex : Sexes, pclass : Classes, age : Ages, fare : Fares]

\* A caller invokes match_to_cohort(sex, pclass, age, fare).
CallMatch ==
    /\ m_pc \in {"idle", "returned"}
    /\ m_calls < MaxCalls
    /\ \E p \in Profiles : m_profile' = p
    /\ m_pc' = "called"
    /\ m_prev' = IF m_pc = "returned" THEN <<m_profile, m_result[1]>> ELSE <<>>
    /\ UNCHANGED <<m_result, m_calls>>
    /\ UNCHANGED <<q_vars, t_vars, b_vars, a_vars, u_vars>>

\* The call runs to its return statement.
ReturnMatch ==
    /\ m_pc = "called"
    /\ m_result' = match_to_cohort(m_profile.sex, m_profile.pclass,
                                   m_profile.age, m_profile.fare)
    /\ m_pc' = "returned"
    /\ m_calls' = m_calls + 1
    /\ UNCHANGED <<m_profile, m_prev>>
    /\ UNCHANGED <<q_vars, t_vars, b_vars, a_vars, u_vars>>

MNext == CallMatch \/ ReturnMatch

SpecCohort == Init /\ [][MNext]_vars

-----------------------------------------------------------------------------
(* Harness of parse_passenger_query: texts typed into the chat input.      *)

\* the queries the docstring, the guidance message and the spec name
ExampleQueries ==
    { "show me a woman in 1st class",
      "what about a young boy in 3rd",
      "elderly man in second class",
      "xyz nonsense",
      "Show me a WOMAN in First Class" }

Keywords ==
    FemaleWords \cup MaleWords
    \cup Class1Phrases \cup Class2Phrases \cup Class3Phrases
    \cup ChildWords \cup ElderlyWords \cup AdultWords

\* numbers in several spellings
NumberWords == { "7", "65", "25 year", "25yr" }

\* every keyword of the parser, the numbers, and words with no keyword
Vocabulary == Keywords \cup NumberWords \cup { "in 3rd", "xyz" }

\* one word and two words of the vocabulary
ShortQueries ==
    {""} \cup Vocabulary \cup { a \o " " \o b : a, b \in Vocabulary }

\* "<N> year old <sex term>"
YearOldQueries ==
    { n \o " year old " \o w : n \in {"7", "25", "65"},
                               w \in FemaleWords \cup MaleWords }

\* some words of every group, for the longer sentences
CoreWords ==
    { "woman", "boy", "rich", "2nd class", "poor", "3rd class",
      "young", "older", "adult", "40", "25yr", "xyz" }

RECURSIVE Sentences(_)
Sentences(n) ==
    IF n = 0 THEN {""}
    ELSE LET shorter == Sentences(n - 1)
         IN  shorter
             \cup { IF s = "" THEN w ELSE s \o " " \o w :
                      s \in shorter, w \in CoreWords }

\* both sexes and two class groups in one text, the later group first
MixedQueries ==
    { m \o " or " \o f \o ", " \o low \o " or " \o high :
        m \in {"boy", "gentleman"}, f \in {"girl", "lady"},
        low \in {"poor", "3rd class"}, high \in {"rich", "2nd class"} }

Queries ==
    ExampleQueries \cup ShortQueries \cup YearOldQueries \cup MixedQueries
    \cup Sentences(MaxWords)

\* The user submits a text in the chat input.
TypeQuery ==
    /\ q_pc = "idle"
    /\ \E t \in Queries : query_text' = t
    /\ q_pc' = "typed"
    /\ UNCHANGED parsed
    /\ UNCHANGED <<m_vars, t_vars, b_vars, a_vars, u_vars>>

\* The chat handler calls parse_passenger_query(user_input).
ParseQuery ==
    /\ q_pc = "typed"
    /\ parsed' = parse_passenger_query(query_text)
    /\ q_pc' = "parsed"
    /\ UNCHANGED query_text
    /\ UNCHANGED <<m_vars, t_vars, b_vars, a_vars, u_vars>>

QNext == TypeQuery \/ ParseQuery

SpecParse == Init /\ [][QNext]_vars

-----------------------------------------------------------------------------
(* Harness of the tree: a model is fitted, converted by both converters,   *)
(* and a what-if input is traced and predicted.                            *)

\* splits a tree fitted to the Titanic features can hold, as
\* <<feature index, threshold in halves>>: sex 0.5, pclass 1.5 and 2.5,
\* age 6.5, fare 8.0
TrainedSplits == { <<0, 1>>, <<1, 3>>, <<1, 5>>, <<2, 13>>, <<3, 16>> }

\* splits of a model fitted to any data: a threshold of -2.0 as well
AnySplits == TrainedSplits \cup { <<3, Halves(-2)>> }

\* the open range of thresholds no feature value reaches
Unbounded == [i \in 0..3 |-> <<-1000, 1000>>]

\* The trees with n internal nodes whose splits lie inside the region
\* (lower and upper limit of every feature) their ancestors leave.
RECURSIVE Shapes(_, _, _)
Shapes(n, splits, region) ==
    IF n = 0 THEN { [leaf |-> TRUE] }
    ELSE UNION {
           { [leaf |-> FALSE, split |-> s, left |-> l, right |-> r] :
               l \in Shapes(k, splits,
                            [region EXCEPT ![s[1]] = <<@[1], s[2]>>]),
               r \in Shapes(n - 1 - k, splits,
                            [region EXCEPT ![s[1]] = <<s[2], @[2]>>]) } :
           k \in 0..(n - 1),
           s \in { c \in splits : /\ region[c[1]][1] < c[2]
                                  /\ c[2] < region[c[1]][2] } }

\* class counts of a leaf (min_samples_leaf = 10): died ahead, a tie,
\* survived ahead
LeafValues == << <<12, 4>>, <<5, 5>>, <<4, 12>> >>

RECURSIVE LeafCount(_)
LeafCount(t) ==
    IF t.leaf THEN 1 ELSE LeafCount(t.left) + LeafCount(t.right)

\* The rows of the arrays for the subtree t whose root gets node_id, in the
\* depth-first order in which sklearn numbers the nodes; the leaves take
\* their counts from LeafValues in turn, beginning at the given rotation.
RECURSIVE Rows(_, _, _, _)
Rows(t, node_id, first_leaf, rotation) ==
    IF t.leaf
    THEN << [feature |-> TREE_UNDEFINED,
             threshold |-> Halves(TREE_UNDEFINED),
             value |-> LeafValues[((first_leaf + rotation) % 3) + 1],
             left |-> TREE_LEAF,
             right |-> TREE_LEAF] >>
    ELSE LET l == Rows(t.left, node_id + 1, first_leaf, rotation)
             r == Rows(t.right, node_id + 1 + Len(l),
                       first_leaf + LeafCount(t.left), rotation)
         IN  << [feature |-> t.split[1],
                 threshold |-> t.split[2],
                 value |-> <<l[1].value[1] + r[1].value[1],
                             l[1].value[2] + r[1].value[2]>>,
                 left |-> node_id + 1,
                 right |-> node_id + 1 + Len(l)] >> \o l \o r

\* model.fit: the arrays of tree_
Fit(t, rotation) ==
    LET rows == Rows(t, 0, 0, rotation)
        nodes == 1..Len(rows)
    IN  [feature |-> [i \in nodes |-> rows[i].feature],
         threshold |-> [i \in nodes |-> rows[i].threshold],
         value |-> [i \in nodes |-> rows[i].value],
         n_node_samples |->
             [i \in nodes |-> rows[i].value[1] + rows[i].value[2]],
         children_left |-> [i \in nodes |-> rows[i].left],
         children_right |-> [i \in nodes |-> rows[i].right]]

Models(splits) ==
    { Fit(t, rotation) :
        t \in UNION { Shapes(n, splits, Unbounded) : n \in 0..MaxInternal },
        rotation \in 0..2 }

\* the trees train_decision_tree can return
TrainedModels == Models(TrainedSplits)

\* the trees sklearn_tree_to_dict can be handed
AnyModels == Models(AnySplits)

\* what-if inputs with all four features
CompleteInputs ==
    [sex : {0, 1}, pclass : {1, 2, 3}, age : {5, 30}, fare : {8, 84}]

\* inputs that lack features, "{sex: 0, pclass: 1}" of the docstring of
\* get_decision_tree_html among them
IncompleteInputs ==
    { [key \in keys |-> p[key]] :
        keys \in { {"sex", "pclass"}, {"pclass", "age", "fare"},
                   {"sex", "age", "fare"}, {"sex", "pclass", "fare"},
                   {"sex", "pclass", "age"} },
        p \in { [sex |-> 0, pclass |-> 1, age |-> 30, fare |-> 84],
                [sex |-> 1, pclass |-> 3, age |-> 5, fare |-> 8] } }

Inputs == CompleteInputs \cup IncompleteInputs

IsComplete(input) == DOMAIN input = {"sex", "pclass", "age", "fare"}

\* train_decision_tree returns a fitted model.
Train ==
    /\ t_pc = "untrained"
    /\ \E fitted \in TrainedModels : model' = fitted
    /\ t_pc' = "trained"
    /\ UNCHANGED <<trees, st_tree, whatif_values, py_path, js_path, prediction>>
    /\ UNCHANGED <<m_vars, q_vars, b_vars, a_vars, u_vars>>

\* A model fitted elsewhere is handed to the converter.
TrainAny ==
    /\ t_pc = "untrained"
    /\ \E fitted \in AnyModels : model' = fitted
    /\ t_pc' = "trained"
    /\ UNCHANGED <<trees, st_tree, whatif_values, py_path, js_path, prediction>>
    /\ UNCHANGED <<m_vars, q_vars, b_vars, a_vars, u_vars>>

\* backend: sklearn_tree_to_dict(model, features, label_encoders=...)
ConvertBackend ==
    /\ t_pc = "trained"
    /\ Len(trees) < MaxConversions
    /\ trees' = Append(trees, sklearn_tree_to_dict(model, features, 0,
                                                   label_encoders))
    /\ UNCHANGED <<t_pc, model, st_tree, whatif_values, py_path, js_path,
                   prediction>>
    /\ UNCHANGED <<m_vars, q_vars, b_vars, a_vars, u_vars>>

\* Streamlit: get_tree_for_visualization converts its model.
ConvertStreamlit ==
    /\ t_pc = "trained"
    /\ st_tree = NoneDict
    /\ st_tree' = tree_data_sklearn_tree_to_dict(model, features, 0,
                                                 label_encoders)
    /\ UNCHANGED <<t_pc, model, trees, whatif_values, py_path, js_path,
                   prediction>>
    /\ UNCHANGED <<m_vars, q_vars, b_vars, a_vars, u_vars>>

\* A what-if input arrives once the conversions are made.
SetInput ==
    /\ t_pc = "trained"
    /\ st_tree # NoneDict
    /\ Len(trees) = MaxConversions
    /\ \E input \in Inputs : whatif_values' = input
    /\ t_pc' = "asked"
    /\ UNCHANGED <<model, trees, st_tree, py_path, js_path, prediction>>
    /\ UNCHANGED <<m_vars, q_vars, b_vars, a_vars, u_vars>>

\* pages/decision_tree.py: trace_path(data['tree'], whatif_values)
TracePath ==
    /\ t_pc = "asked"
    /\ py_path' = trace_path(st_tree, whatif_values)
    /\ t_pc' = "traced"
    /\ UNCHANGED <<model, trees, st_tree, whatif_values, js_path, prediction>>
    /\ UNCHANGED <<m_vars, q_vars, b_vars, a_vars, u_vars>>

\* decision_tree_viz.py: tracePath(treeData, presetValues)
TracePathJS ==
    /\ t_pc = "traced"
    /\ js_path' = tracePath(st_tree, whatif_values)
    /\ t_pc' = "highlighted"
    /\ UNCHANGED <<model, trees, st_tree, whatif_values, py_path, prediction>>
    /\ UNCHANGED <<m_vars, q_vars, b_vars, a_vars, u_vars>>

\* backend: predict_single(sex, pclass, age, fare)
PredictSingle ==
    /\ t_pc = "highlighted"
    /\ IsComplete(whatif_values)
    /\ prediction' = predict_single(model, whatif_values.sex,
                                    whatif_values.pclass, whatif_values.age,
                                    whatif_values.fare)
    /\ t_pc' = "predicted"
    /\ UNCHANGED <<model, trees, st_tree, whatif_values, py_path, js_path>>
    /\ UNCHANGED <<m_vars, q_vars, b_vars, a_vars, u_vars>>

TNext ==
    \/ Train
    \/ ConvertBackend
    \/ ConvertStreamlit
    \/ SetInput
    \/ TracePath
    \/ TracePathJS
    \/ PredictSingle

TNextAny ==
    \/ TrainAny
    \/ ConvertBackend
    \/ ConvertStreamlit
    \/ SetInput
    \/ TracePath
    \/ TracePathJS
    \/ PredictSingle

SpecTree == Init /\ [][TNext]_vars

SpecTreeAny == Init /\ [][TNextAny]_vars

\* the decoder dictionaries a caller of the backend converter can pass:
\* none, the one of load_titanic_data, and ones with further features
Decoders ==
    { {}, {"sex"}, {"sex", "pclass"}, {"pclass", "age"},
      {"sex", "pclass", "age", "fare"} }

\* backend: sklearn_tree_to_dict(model, features, label_encoders=encoders)
\* called with any of the decoder dictionaries
ConvertBackendWith ==
    /\ t_pc = "trained"
    /\ Len(trees) < MaxConversions
    /\ \E encoders \in Decoders :
         trees' = Append(trees, sklearn_tree_to_dict(model, features, 0,
                                                     encoders))
    /\ UNCHANGED <<t_pc, model, st_tree, whatif_values, py_path, js_path,
                   prediction>>
    /\ UNCHANGED <<m_vars, q_vars, b_vars, a_vars, u_vars>>

TNextDecoders ==
    \/ TrainAny
    \/ ConvertBackendWith

SpecTreeDecoders == Init /\ [][TNextDecoders]_vars

-----------------------------------------------------------------------------
(* Harness of the backend: the startup hook and the handlers.  Every       *)
(* handler is an `async def` that calls the synchronous model functions    *)
(* without awaiting, so on the one event loop each runs to its end before  *)
(* the next begins; the requests arrive in any order, before or after the  *)
(* startup hook.                                                           *)

\* the models training can return here: a single leaf or one split
ServeModels ==
    { Fit(t, 0) : t \in UNION { Shapes(n, TrainedSplits, Unbounded) :
                                  n \in 0..1 } }

\* What train_decision_tree returns when the body of get_trained_model
\* runs: one of ServeModels, and the same one on every run (the data, the
\* split and the tree are seeded with random_state=42).
Fitted ==
    IF b_cache = NoneDict THEN ServeModels ELSE {b_cache.model}

\* bodies of POST /predict: every field inside, on and beyond its limits,
\* and bodies that lack one field
RequestValues ==
    [sex : {-1, 0, 1, 2}, pclass : {0, 1, 3, 4}, age : {-1, 0, 100, 101},
     fare : {-1, 0, 84}]

RequestsMissingField ==
    { [key \in {"sex", "pclass", "age", "fare"} \ {missing} |-> 
          [sex |-> 0, pclass |-> 1, age |-> 30, fare |-> 84][key]] :
        missing \in {"sex", "pclass", "age", "fare"} }

Requests == RequestValues \cup RequestsMissingField

\* lifespan: get_trained_model() before the application serves
Startup ==
    /\ ~b_started
    /\ \E fitted \in Fitted :
         LET got == get_trained_model(b_cache, b_trainings, fitted)
         IN  /\ b_cache' = got.cache
             /\ b_trainings' = got.trainings
             /\ b_seen' = b_seen \cup {got.returned}
    /\ b_started' = TRUE
    /\ b_callers' = b_callers \cup {"lifespan"}
    /\ UNCHANGED <<b_tree_response, b_response, b_calls>>
    /\ UNCHANGED <<m_vars, q_vars, t_vars, a_vars, u_vars>>

\* POST /predict: the body is validated into a PassengerInput (422 on any
\* error, the handler does not run); the handler calls predict_single,
\* which takes the model from get_trained_model.
Predict ==
    /\ b_calls < MaxRequests
    /\ b_calls' = b_calls + 1
    /\ \E body \in Requests, fitted \in Fitted :
         IF validation_errors(body) # {}
         THEN /\ b_response' = [body |-> body, status_code |-> 422,
                                errors |-> validation_errors(body),
                                predict_single_called |-> FALSE,
                                result |-> NoneDict]
              /\ UNCHANGED <<b_cache, b_trainings, b_seen, b_callers>>
         ELSE LET got == get_trained_model(b_cache, b_trainings, fitted)
              IN  /\ b_cache' = got.cache
                  /\ b_trainings' = got.trainings
                  /\ b_seen' = b_seen \cup {got.returned}
                  /\ b_callers' = b_callers \cup {"predict"}
                  /\ b_response' =
                       [body |-> body, status_code |-> 200, errors |-> {},
                        predict_single_called |-> TRUE,
                        result |-> predict_single(got.returned.model,
                                                  body.sex, body.pclass,
                                                  body.age, body.fare)]
    /\ UNCHANGED <<b_started, b_tree_response>>
    /\ UNCHANGED <<m_vars, q_vars, t_vars, a_vars, u_vars>>

\* GET /tree: _get_cached_tree_response under its own lru_cache; on a miss
\* get_tree_structure, get_trained_model and get_model_metrics each call
\* get_trained_model.
GetTreeWithMetrics ==
    /\ b_calls < MaxRequests
    /\ b_calls' = b_calls + 1
    /\ IF lru_cache_hits(b_tree_response)
       THEN UNCHANGED <<b_cache, b_trainings, b_seen, b_callers,
                        b_tree_response>>
       ELSE \E fitted \in Fitted :
              LET structure == get_trained_model(b_cache, b_trainings,
                                                 fitted)
                  model_data == get_trained_model(structure.cache,
                                                  structure.trainings,
                                                  fitted)
                  metrics == get_trained_model(model_data.cache,
                                               model_data.trainings,
                                               fitted)
              IN  /\ b_cache' = metrics.cache
                  /\ b_trainings' = metrics.trainings
                  /\ b_seen' = b_seen \cup {structure.returned,
                                            model_data.returned,
                                            metrics.returned}
                  /\ b_callers' = b_callers \cup {"tree"}
                  /\ b_tree_response' =
                       [tree |-> structure.returned.tree,
                        feature_names |-> features]
    /\ UNCHANGED <<b_started, b_response>>
    /\ UNCHANGED <<m_vars, q_vars, t_vars, a_vars, u_vars>>

\* GET /metrics/decision-tree: get_model_metrics
GetDecisionTreeMetrics ==
    /\ b_calls < MaxRequests
    /\ b_calls' = b_calls + 1
    /\ \E fitted \in Fitted :
         LET got == get_trained_model(b_cache, b_trainings, fitted)
         IN  /\ b_cache' = got.cache
             /\ b_trainings' = got.trainings
             /\ b_seen' = b_seen \cup {got.returned}
    /\ b_callers' = b_callers \cup {"metrics"}
    /\ UNCHANGED <<b_started, b_tree_response, b_response>>
    /\ UNCHANGED <<m_vars, q_vars, t_vars, a_vars, u_vars>>

BNext ==
    \/ Startup
    \/ Predict
    \/ GetTreeWithMetrics
    \/ GetDecisionTreeMetrics

SpecServe == Init /\ [][BNext]_vars

-----------------------------------------------------------------------------
(* Harness of the Streamlit app.  Every interaction starts a script run:   *)
(* the pending update is applied, the widgets are created, and the handler *)
(* of the interaction runs at the end of the script; st.rerun() starts the *)
(* next run at once.                                                       *)

\* texts typed into the chat input
ChatQueries ==
    { "show me a woman in 1st class",
      "what about a young boy in 3rd",
      "elderly man in second class",
      "young girl in first class",
      "gentleman",
      "rich gentleman",
      "poor lady",
      "woman 95",
      "xyz nonsense" }

\* The head of a script run: the pending update is applied and cleared,
\* then the what-if widgets are created.
\* pclass_option and fare_value are what the two keys hold when the run
\* starts.
ScriptHead(pclass_option, fare_value) ==
    /\ whatif_sex' = after_block(whatif_updates, "sex", whatif_sex)
    /\ whatif_pclass' = after_block(whatif_updates, "pclass", pclass_option)
    /\ whatif_age' = after_block(whatif_updates, "age", whatif_age)
    /\ whatif_fare' = after_block(whatif_updates, "fare", fare_value)
    /\ a_widgets_saw' = updates_after_block(whatif_updates)

\* update_whatif_and_respond, called by a handler at the end of a run
update_whatif_and_respond(sex, pclass, age, fare, user_message) ==
    LET matched == match_to_cohort(sex, pclass, age, fare)
        passenger_desc == format_passenger_description(sex, pclass, age,
                                                       fare)
        text == response_text(matched[2], selected_tab, passenger_desc)
    IN  /\ chat_history' = append_messages(chat_history, user_message, text)
        /\ whatif_updates' = pending_update(sex, pclass, age, fare)
        /\ current_preset' = matched[1]

\* A preset button is clicked.
ClickPreset ==
    /\ a_pc = "rendered"
    /\ a_turns < MaxTurns
    /\ ScriptHead(whatif_pclass, whatif_fare)
    /\ \E i \in DOMAIN presets :
         LET preset_values == presets[i].values
         IN  /\ update_whatif_and_respond(preset_values.sex,
                                          preset_values.pclass,
                                          preset_values.age,
                                          preset_values.fare,
                                          presets[i].label)
             /\ a_turn' = [kind |-> "preset",
                           user_message |-> presets[i].label,
                           profile |-> preset_values,
                           matcher_called |-> TRUE]
    /\ a_pc' = "rerun"
    /\ a_turns' = a_turns + 1
    /\ UNCHANGED selected_tab
    /\ UNCHANGED <<m_vars, q_vars, t_vars, b_vars, u_vars>>

\* A text is submitted in the chat input.
SubmitChat ==
    /\ a_pc = "rendered"
    /\ a_turns < MaxTurns
    /\ ScriptHead(whatif_pclass, whatif_fare)
    /\ \E user_input \in ChatQueries :
         LET parsed_query == parse_passenger_query(user_input)
         IN  IF parsed_query # NoneDict
             THEN /\ update_whatif_and_respond(parsed_query.sex,
                                               parsed_query.pclass,
                                               parsed_query.age,
                                               parsed_query.fare,
                                               user_input)
                  /\ a_turn' = [kind |-> "parsed",
                                user_message |-> user_input,
                                profile |-> parsed_query,
                                matcher_called |-> TRUE]
             ELSE /\ chat_history' = guidance_messages(chat_history,
                                                       user_input)
                  /\ whatif_updates' = updates_after_block(whatif_updates)
                  /\ a_turn' = [kind |-> "unparsable",
                                user_message |-> user_input,
                                profile |-> NoneDict,
                                matcher_called |-> FALSE]
                  /\ UNCHANGED current_preset
    /\ a_pc' = "rerun"
    /\ a_turns' = a_turns + 1
    /\ UNCHANGED selected_tab
    /\ UNCHANGED <<m_vars, q_vars, t_vars, b_vars, u_vars>>

\* The script run st.rerun() starts: no interaction to handle.
Rerun ==
    /\ a_pc = "rerun"
    /\ ScriptHead(whatif_pclass, whatif_fare)
    /\ whatif_updates' = updates_after_block(whatif_updates)
    /\ a_pc' = "rendered"
    /\ UNCHANGED <<chat_history, current_preset, selected_tab, a_turn,
                   a_turns>>
    /\ UNCHANGED <<m_vars, q_vars, t_vars, b_vars, u_vars>>

\* The user picks another passenger class: the radio stores it,
\* update_fare_for_class sets the fare, and the script runs.
ChangeClass ==
    /\ a_pc = "rendered"
    /\ \E option \in {<<1, 1>>, <<2, 2>>, <<3, 3>>} \ {whatif_pclass} :
         ScriptHead(option, class_avg_fares(option[2]))
    /\ whatif_updates' = updates_after_block(whatif_updates)
    /\ UNCHANGED <<a_pc, chat_history, current_preset, selected_tab, a_turn,
                   a_turns>>
    /\ UNCHANGED <<m_vars, q_vars, t_vars, b_vars, u_vars>>

\* The user picks the other tab.
SelectTab ==
    /\ a_pc = "rendered"
    /\ ScriptHead(whatif_pclass, whatif_fare)
    /\ whatif_updates' = updates_after_block(whatif_updates)
    /\ selected_tab' = IF selected_tab = TAB_DECISION_TREE
                       THEN TAB_XGBOOST ELSE TAB_DECISION_TREE
    /\ UNCHANGED <<a_pc, chat_history, current_preset, a_turn, a_turns>>
    /\ UNCHANGED <<m_vars, q_vars, t_vars, b_vars, u_vars>>

ANext ==
    \/ ClickPreset
    \/ SubmitChat
    \/ Rerun
    \/ ChangeClass
    \/ SelectTab

SpecApp == Init /\ [][ANext]_vars

-----------------------------------------------------------------------------
(* Harness of the tutorial: its three functions are called in any order    *)
(* on the session state of the app, and the user changes the tab.          *)

\* start_tutorial()
StartTutorial ==
    /\ u_calls < MaxTutorialCalls
    /\ tutorial_active' = TRUE
    /\ tutorial_step' = 0
    /\ has_seen_tutorial' = TRUE
    /\ chat_history' =
         Append(chat_history,
                [role |-> "assistant",
                 content |-> get_tutorial_message(0, selected_tab)])
    /\ LET whatif == TUTORIAL_STEPS[0].whatif_values
       IN  /\ whatif_updates' = [sex |-> <<"Female", whatif.sex>>,
                                 pclass |-> <<whatif.pclass, whatif.pclass>>,
                                 age |-> whatif.age,
                                 fare |-> whatif.fare]
           /\ whatif_sex' = <<"Female", whatif.sex>>
           /\ whatif_pclass' = <<whatif.pclass, whatif.pclass>>
           /\ whatif_age' = whatif.age
           /\ whatif_fare' = whatif.fare
    /\ u_last' = "start_tutorial"
    /\ u_calls' = u_calls + 1
    /\ UNCHANGED <<a_pc, current_preset, selected_tab, a_widgets_saw,
                   a_turn, a_turns>>
    /\ UNCHANGED <<m_vars, q_vars, t_vars, b_vars>>

\* skip_tutorial()
SkipTutorial ==
    /\ u_calls < MaxTutorialCalls
    /\ tutorial_active' = FALSE
    /\ has_seen_tutorial' = TRUE
    /\ chat_history' = Append(chat_history,
                              [role |-> "assistant",
                               content |-> TUTORIAL_SKIPPED])
    /\ u_last' = "skip_tutorial"
    /\ u_calls' = u_calls + 1
    /\ UNCHANGED tutorial_step
    /\ UNCHANGED <<a_pc, current_preset, selected_tab, whatif_sex,
                   whatif_pclass, whatif_age, whatif_fare, whatif_updates,
                   a_widgets_saw, a_turn, a_turns>>
    /\ UNCHANGED <<m_vars, q_vars, t_vars, b_vars>>

\* advance_tutorial()
AdvanceTutorial ==
    /\ u_calls < MaxTutorialCalls
    /\ LET current_step == tutorial_step
       IN  IF can_advance(current_step)
           THEN /\ tutorial_step' = current_step + 1
                /\ chat_history' =
                     Append(chat_history,
                            [role |-> "assistant",
                             content |->
                                 get_tutorial_message(current_step + 1,
                                                      selected_tab)])
                /\ UNCHANGED tutorial_active
           ELSE /\ tutorial_active' = FALSE
                /\ chat_history' =
                     Append(chat_history,
                            [role |-> "assistant",
                             content |-> TUTORIAL_COMPLETE])
                /\ UNCHANGED tutorial_step
    /\ u_last' = "advance_tutorial"
    /\ u_calls' = u_calls + 1
    /\ UNCHANGED has_seen_tutorial
    /\ UNCHANGED <<a_pc, current_preset, selected_tab, whatif_sex,
                   whatif_pclass, whatif_age, whatif_fare, whatif_updates,
                   a_widgets_saw, a_turn, a_turns>>
    /\ UNCHANGED <<m_vars, q_vars, t_vars, b_vars>>

UNext ==
    \/ StartTutorial
    \/ SkipTutorial
    \/ AdvanceTutorial
    \/ SelectTab

SpecTutorial == Init /\ [][UNext]_vars

-----------------------------------------------------------------------------
(* Properties of match_to_cohort, stated on the rule table alone.          *)

Returned == m_pc = "returned"
cohort_name == m_result[1]
cohort_info == m_result[2]

\* Rule i of the table accepts profile p: every criterion it names holds.
Accepts(i, p) ==
    LET c == COHORT_PATTERNS[i].match_criteria
    IN  /\ ("sex" \in DOMAIN c => c.sex = p.sex)
        /\ ("pclass" \in DOMAIN c => c.pclass = p.pclass)
        /\ ("age_range" \in DOMAIN c =>
                (p.age >= c.age_range[1] /\ p.age <= c.age_range[2]))

\* Rule i is tried before rule j: higher priority, or equal priority and
\* registered earlier.
TriedBefore(i, j) ==
    \/ COHORT_PATTERNS[i].priority > COHORT_PATTERNS[j].priority
    \/ /\ COHORT_PATTERNS[i].priority = COHORT_PATTERNS[j].priority
       /\ i < j

Accepting(p) == { i \in 1..Len(COHORT_PATTERNS) : Accepts(i, p) }

\* C1: match_to_cohort tries the rules in the order first_class_child,
\* third_class_male, first_class, third_class, women, men (priority
\* descending, registration order among equals) and returns the first rule
\* that accepts the profile: no accepting rule that is tried before the
\* returned one exists, and the fallback is returned only when none accepts.
C1_FirstMatchInPriorityOrder ==
    Returned =>
        /\ [i \in 1..Len(sorted_cohorts) |-> sorted_cohorts[i].name]
              = <<"first_class_child", "third_class_male", "first_class",
                  "third_class", "women", "men">>
        /\ IF Accepting(m_profile) = {}
           THEN cohort_name = None
           ELSE \E i \in Accepting(m_profile) :
                    /\ cohort_name = COHORT_PATTERNS[i].name
                    /\ \A j \in Accepting(m_profile) \ {i} : TriedBefore(i, j)

\* A first-class adult woman: women (registered earlier, lower priority) and
\* first_class both accept, and first_class is returned.
C1_Witness ==
    /\ Returned
    /\ m_profile.sex = 0 /\ m_profile.pclass = 1 /\ m_profile.age = 30
    /\ Accepting(m_profile) = {3, 5}
    /\ cohort_name = "first_class"

\* C2: first_class_child is returned exactly for pclass = 1 with
\* 0 <= age <= 12, for either sex and any fare; a first-class profile of
\* age 12 gets first_class_child and one of age 13 gets first_class.
C2_FirstClassChildExactly ==
    Returned =>
        /\ (cohort_name = "first_class_child") <=>
               (m_profile.pclass = 1 /\ 0 <= m_profile.age /\ m_profile.age <= 12)
        /\ (m_profile.pclass = 1 /\ m_profile.age = 13 =>
               cohort_name = "first_class")

\* A first-class boy of exactly 12: men and first_class accept him too.
C2_Witness ==
    /\ Returned
    /\ m_profile.sex = 1 /\ m_profile.pclass = 1 /\ m_profile.age = 12
    /\ {4, 5} \subseteq Accepting(m_profile)
    /\ cohort_name = "first_class_child"

C4_ThirdClassMale ==
    (Returned /\ m_profile.sex = 1 /\ m_profile.pclass = 3) =>
        cohort_name = "third_class_male"

\* The scenario profile {sex: 1, pclass: 3, age: 40, fare: 8}.
C4_Witness ==
    /\ Returned
    /\ m_profile = [sex |-> 1, pclass |-> 3, age |-> 40, fare |-> 8]
    /\ cohort_name = "third_class_male"

-----------------------------------------------------------------------------
(* Properties of parse_passenger_query, stated on the query text.          *)

Parsed == q_pc = "parsed"
Unparsable == parsed = NoneDict

\* the text as the case-insensitive scan sees it
Query == lower(query_text)

Mentions(terms) == \E w \in terms : Contains(Query, w)

FemaleTerms == {"woman", "women", "female", "lady", "ladies", "girl"}
MaleTerms == {"man", "men", "male", "gentleman", "boy"}
SexTerms == FemaleTerms \cup MaleTerms
Class1Terms == {"1st class", "first class", "upper class", "wealthy", "rich"}
Class2Terms == {"2nd class", "second class", "middle class"}
Class3Terms == {"3rd class", "third class", "lower class", "poor", "cheap"}
ClassTerms == Class1Terms \cup Class2Terms \cup Class3Terms
ChildTerms == {"child", "children", "kid", "young", "baby", "infant"}
ElderlyTerms == {"elderly", "senior", "older", "old"}
AdultTerms == {"adult", "middle-aged", "middle aged"}
AgeTerms == ChildTerms \cup ElderlyTerms \cup AdultTerms

\* the historical class averages
ClassAverage(pclass) == CASE pclass = 1 -> 84 [] pclass = 2 -> 20 [] pclass = 3 -> 13

\* an integer of the text q that begins at a word boundary runs from i to j
IntegerAt(q, i, j) ==
    /\ IsDigit(CharAt(q, i))
    /\ Boundary(q, i)
    /\ \A k \in i..j : IsDigit(CharAt(q, k))

\* an integer with a word boundary on either side ("25", "(40)", "25-year")
HasStandaloneInteger ==
    LET q == Query
    IN  \E i \in 1..Len(q) : \E j \in i..Len(q) :
            IntegerAt(q, i, j) /\ Boundary(q, j + 1)

\* an integer with a unit written directly behind it ("25yr", "40year")
HasIntegerWithUnit ==
    LET q == Query
    IN  \E i \in 1..Len(q) : \E j \in i..Len(q) :
            /\ IntegerAt(q, i, j)
            /\ \E u \in {"year", "yr", "y.o."} : LiteralAt(q, j + 1, u)

\* a digit at a word boundary, standalone integer or not ("1st")
HasDigitAtBoundary ==
    LET q == Query IN \E i \in 1..Len(q) : IntegerAt(q, i, i)

\* C5: parse_passenger_query returns None if and only if the text holds no
\* sex term and no class phrase: age keywords and numbers alone never make
\* a query parsable, one sex term or one class phrase always does.
C5_UnparsableIffNoSexNoClass ==
    Parsed => (Unparsable <=> (~Mentions(SexTerms) /\ ~Mentions(ClassTerms)))

\* "young 7": an age keyword and a number, and still unparsable.
C5_Witness ==
    /\ Parsed
    /\ Unparsable
    /\ Mentions(ChildTerms)
    /\ HasStandaloneInteger

\* C6: every result other than None is a complete profile with sex in
\* {0, 1}, pclass in {1, 2, 3}, a non-negative integer age and the class
\* average of its pclass as fare; a text without sex term gets sex 0, a text
\* without class phrase gets pclass 2 and fare 20.
C6_CompleteProfile ==
    (Parsed /\ ~Unparsable) =>
        /\ DOMAIN parsed = {"sex", "pclass", "age", "fare"}
        /\ parsed.sex \in {0, 1}
        /\ parsed.pclass \in {1, 2, 3}
        /\ parsed.age \in Nat
        /\ parsed.fare = ClassAverage(parsed.pclass)
        /\ (~Mentions(SexTerms) => parsed.sex = 0)
        /\ (~Mentions(ClassTerms) => (parsed.pclass = 2 /\ parsed.fare = 20))

\* A third-class phrase without sex term: sex defaulted, fare 13.
C6_Witness ==
    /\ Parsed
    /\ ~Mentions(SexTerms)
    /\ Mentions(Class3Terms)
    /\ parsed = [sex |-> 0, pclass |-> 3, age |-> 30, fare |-> 13]

\* C7 as claimed: every text with a class-3 keyword and a female keyword
\* parses to sex 0, pclass 3, fare 13, whatever else it contains.
C7_AsClaimed ==
    (Parsed /\ Mentions(Class3Terms) /\ Mentions(FemaleTerms)) =>
        /\ ~Unparsable
        /\ parsed.sex = 0 /\ parsed.pclass = 3 /\ parsed.fare = 13

\* C7: every text with a class-3 keyword and a female keyword, and with no
\* class-1 and no class-2 phrase, parses to sex 0, pclass 3, fare 13,
\* whatever else it contains.
C7_Class3Female ==
    (/\ Parsed
     /\ Mentions(Class3Terms) /\ Mentions(FemaleTerms)
     /\ ~Mentions(Class1Terms) /\ ~Mentions(Class2Terms)) =>
        /\ ~Unparsable
        /\ parsed.sex = 0 /\ parsed.pclass = 3 /\ parsed.fare = 13

\* "woman" holds the male word "man", and the text goes on with other words.
C7_Witness ==
    /\ Parsed
    /\ Mentions(Class3Terms) /\ Mentions(FemaleTerms) /\ Mentions(MaleTerms)
    /\ ~Mentions(Class1Terms) /\ ~Mentions(Class2Terms)
    /\ Contains(Query, "xyz")
    /\ parsed.sex = 0 /\ parsed.pclass = 3 /\ parsed.fare = 13

\* C8: "what about a young boy in 3rd" parses to
\* {sex: 1, pclass: 3, age: 8, fare: 13.0}.
C8_YoungBoyInThird ==
    (Parsed /\ query_text = "what about a young boy in 3rd") =>
        parsed = [sex |-> 1, pclass |-> 3, age |-> 8, fare |-> 13]

\* C9 as claimed: a parsable text with no age keyword and no standalone
\* integer gets age 30.
C9_AsClaimed ==
    (Parsed /\ ~Unparsable /\ ~Mentions(AgeTerms) /\ ~HasStandaloneInteger) =>
        parsed.age = 30

\* C9: a parsable text with no age keyword, no standalone integer and no
\* integer directly followed by a unit (year, yr, y.o.) gets age 30; the
\* digit of an ordinal is no age, and "show me a woman in 1st class" parses
\* to {sex: 0, pclass: 1, age: 30, fare: 84.0}.
C9_DefaultAge ==
    /\ (/\ Parsed /\ ~Unparsable
        /\ ~Mentions(AgeTerms)
        /\ ~HasStandaloneInteger /\ ~HasIntegerWithUnit) => parsed.age = 30
    /\ (Parsed /\ query_text = "show me a woman in 1st class") =>
           parsed = [sex |-> 0, pclass |-> 1, age |-> 30, fare |-> 84]

\* An ordinal class phrase: a digit at a word boundary that is no age.
C9_Witness ==
    /\ Parsed
    /\ query_text = "show me a woman in 1st class"
    /\ HasDigitAtBoundary
    /\ ~HasStandaloneInteger /\ ~HasIntegerWithUnit
    /\ parsed.age = 30

\* the number N of a text "<N> year old <sex term>", or None
YearOldNumber ==
    IF \E n \in {"7", "25", "65"} : \E w \in SexTerms :
           query_text = n \o " year old " \o w
    THEN int(age_match(query_text))
    ELSE NoneInt

\* the age the categorical keywords of the text fix, or None
KeywordAge ==
    IF Mentions(ChildTerms) THEN 8
    ELSE IF Mentions(ElderlyTerms) THEN 65
    ELSE IF Mentions(AdultTerms) THEN 35
    ELSE NoneInt

\* C10 as claimed: a keyword age overrides any number, and a text
\* "<N> year old <sex term>" never yields age N.
C10_AsClaimed ==
    (Parsed /\ ~Unparsable) =>
        /\ (KeywordAge # NoneInt => parsed.age = KeywordAge)
        /\ (YearOldNumber # NoneInt => parsed.age # YearOldNumber)

\* C10: a parsable text with a child term gets age 8, otherwise one with an
\* elderly term gets 65, otherwise one with an adult term gets 35, whatever
\* numbers it holds; a text "<N> year old <sex term>" gets age 65 for every
\* N (so it yields N only when N is 65).
C10_KeywordOverridesNumber ==
    (Parsed /\ ~Unparsable) =>
        /\ (KeywordAge # NoneInt => parsed.age = KeywordAge)
        /\ (YearOldNumber # NoneInt => parsed.age = 65)

\* "25 year old woman": the number 25 is there, the age is 65.
C10_Witness ==
    /\ Parsed
    /\ YearOldNumber = 25
    /\ HasStandaloneInteger
    /\ parsed.age = 65

\* C11: sex and class are resolved by the first matching group: a text with
\* a female term gets sex 0 whatever male terms it holds, sex 1 is returned
\* only for a text with a male term and no female term, and of the class
\* groups the first one found in the order 1, 2, 3 gives the class.
C11_FirstMatchingGroup ==
    Parsed =>
        /\ Mentions(FemaleTerms) => (~Unparsable /\ parsed.sex = 0)
        /\ (~Unparsable /\ parsed.sex = 1) =>
               (Mentions(MaleTerms) /\ ~Mentions(FemaleTerms))
        /\ Mentions(Class1Terms) => (~Unparsable /\ parsed.pclass = 1)
        /\ (~Mentions(Class1Terms) /\ Mentions(Class2Terms)) =>
               (~Unparsable /\ parsed.pclass = 2)
        /\ (~Mentions(Class1Terms) /\ ~Mentions(Class2Terms)
               /\ Mentions(Class3Terms)) =>
               (~Unparsable /\ parsed.pclass = 3)

\* "boy or girl, poor or rich": the male term and the class-3 term come
\* first in the text, the female group and class 1 win.
C11_Witness ==
    /\ Parsed
    /\ Mentions({"boy", "gentleman"})
    /\ Mentions({"girl", "lady"})
    /\ Mentions(Class3Terms)
    /\ Mentions(Class1Terms)
    /\ ~Unparsable
    /\ parsed.sex = 0
    /\ parsed.pclass = 1

-----------------------------------------------------------------------------
(* Properties of the converted tree, stated on the arrays of the model.    *)

\* the nodes of a converted tree, a node before its children
RECURSIVE NodeSeq(_)
NodeSeq(node) ==
    IF "children" \in DOMAIN node
    THEN <<node>> \o NodeSeq(node.children[1]) \o NodeSeq(node.children[2])
    ELSE <<node>>

Nodes(tree) == { NodeSeq(tree)[i] : i \in 1..Len(NodeSeq(tree)) }

\* the trees the backend converter returned so far
BackendTrees == { trees[i] : i \in 1..Len(trees) }

\* the trees either converter returned so far
ConvertedTrees ==
    BackendTrees \cup (IF st_tree = NoneDict THEN {} ELSE {st_tree})

IsInternal(node) == "children" \in DOMAIN node

\* C12 as claimed: the predicted class is the class with more samples, and
\* survived (1) when both counts are equal.
C12_AsClaimed ==
    \A tree \in ConvertedTrees : \A node \in Nodes(tree) :
        /\ node.class_1 > node.class_0 => node.predicted_class = 1
        /\ node.class_0 > node.class_1 => node.predicted_class = 0
        /\ node.class_0 = node.class_1 => node.predicted_class = 1

\* C12: in every node of a converted tree the predicted class is the class
\* with more samples, and died (0) when both counts are equal; the counts
\* of a backend node are those of the model.
C12_MajorityTiesDied ==
    /\ \A tree \in ConvertedTrees : \A node \in Nodes(tree) :
        /\ node.class_1 > node.class_0 => node.predicted_class = 1
        /\ node.class_0 > node.class_1 => node.predicted_class = 0
        /\ node.class_0 = node.class_1 => node.predicted_class = 0
    /\ \A tree \in BackendTrees : \A node \in Nodes(tree) :
        <<node.class_0, node.class_1>> = At(model.value, node.id)

\* both converters met a node with equal counts, a node with more survivors
\* and a node with more deaths
C12_Witness ==
    /\ Len(trees) > 0
    /\ st_tree # NoneDict
    /\ \A tree \in {trees[1], st_tree} :
        /\ \E node \in Nodes(tree) :
              node.class_0 = node.class_1 /\ node.predicted_class = 0
        /\ \E node \in Nodes(tree) :
              node.class_1 > node.class_0 /\ node.predicted_class = 1
        /\ \E node \in Nodes(tree) :
              node.class_0 > node.class_1 /\ node.predicted_class = 0

\* C13: every node of a converted tree has no 'children' entry, or two
\* children of which the first is the model's left child and the second
\* its right child; is_leaf holds iff feature is None iff 'children' is
\* absent.
C13_LeafIffNoFeatureIffNoChildren ==
    \A tree \in ConvertedTrees : \A node \in Nodes(tree) :
        /\ \/ "children" \notin DOMAIN node
           \/ /\ Len(node.children) = 2
              /\ node.children[1].id = At(model.children_left, node.id)
              /\ node.children[2].id = At(model.children_right, node.id)
        /\ node.is_leaf <=> (node.feature = None)
        /\ (node.feature = None) <=> ("children" \notin DOMAIN node)

\* a converted tree with an internal root and an internal child
C13_Witness ==
    /\ Len(trees) > 0
    /\ IsInternal(trees[1])
    /\ \E i \in 1..2 : IsInternal(trees[1].children[i])
    /\ \E node \in Nodes(trees[1]) : node.is_leaf /\ node.feature = None

\* C14 as claimed: the threshold of a node is None exactly when the node
\* is a leaf, and an internal node carries the threshold of the model,
\* whatever its value.
C14_ThresholdNoneIffLeaf ==
    \A tree \in ConvertedTrees : \A node \in Nodes(tree) :
        /\ (node.threshold = NoneFloat) <=> node.is_leaf
        /\ ~node.is_leaf =>
              node.threshold = Float(At(model.threshold, node.id))

C16_IdIsArrayIndex ==
    \A tree \in ConvertedTrees :
        LET nodes == NodeSeq(tree)
        IN  /\ tree.id = 0
            /\ \A i \in 1..Len(nodes) :
                /\ nodes[i].samples = At(model.n_node_samples, nodes[i].id)
                /\ nodes[i].is_leaf =
                      (At(model.feature, nodes[i].id) = TREE_UNDEFINED)
                /\ IsInternal(nodes[i]) =>
                      /\ nodes[i].children[1].id =
                            At(model.children_left, nodes[i].id)
                      /\ nodes[i].children[2].id =
                            At(model.children_right, nodes[i].id)
            /\ \A i, j \in 1..Len(nodes) :
                  i # j => nodes[i].id # nodes[j].id
            /\ Len(nodes) = Len(model.feature)

\* a converted tree of five nodes whose right subtree is internal: the ids
\* of the children of the root are 1 and 2
C16_Witness ==
    /\ Len(trees) > 0
    /\ Len(NodeSeq(trees[1])) = 5
    /\ trees[1].children[1].id = 1
    /\ trees[1].children[2].id = 2
    /\ IsInternal(trees[1].children[2])

\* the labels of an internal node that splits on pclass, as the class
\* convention gives them
HasClassLabels(node) ==
    /\ "left_label" \in DOMAIN node
    /\ "right_label" \in DOMAIN node
    /\ node.threshold[1] <= Halves(1) + 1 =>
          /\ node.left_label = "1st class"
          /\ node.right_label = "2nd & 3rd class"
    /\ (node.threshold[1] > Halves(1) + 1
          /\ node.threshold[1] <= Halves(2) + 1) =>
          /\ node.left_label = "1st & 2nd class"
          /\ node.right_label = "3rd class"

\* C17 as claimed: every internal node that splits on pclass has the
\* class-name labels, in the trees of the backend converter and in the tree
\* of the Streamlit converter.
C17_ClassLabelsInBothConverters ==
    \A tree \in ConvertedTrees : \A node \in Nodes(tree) :
        (IsInternal(node) /\ node.feature = "pclass") => HasClassLabels(node)

-----------------------------------------------------------------------------
(* Properties of the path tracers.                                         *)

TracedPy == t_pc \in {"traced", "highlighted", "predicted"}
TracedJS == t_pc \in {"highlighted", "predicted"}

\* the node of the tree with the given id
NodeById(tree, id) == CHOOSE node \in Nodes(tree) : node.id = id

\* path is the walk of the input through the tree: it begins at the root,
\* goes from a node to its first child when the input's value of the node's
\* feature is at most the threshold and to its second child otherwise,
\* ends at the first leaf it meets, and passes no node twice
IsWalk(tree, input, path) ==
    /\ Len(path) > 0
    /\ path[1] = tree.id
    /\ \A i \in 1..Len(path) : \E node \in Nodes(tree) : node.id = path[i]
    /\ NodeById(tree, path[Len(path)]).is_leaf
    /\ \A i \in 1..(Len(path) - 1) :
          LET node == NodeById(tree, path[i])
          IN  /\ ~node.is_leaf
              /\ IF 2 * input[node.feature] <= node.threshold[1]
                 THEN path[i + 1] = node.children[1].id
                 ELSE path[i + 1] = node.children[2].id
    /\ \A i, j \in 1..Len(path) : i # j => path[i] # path[j]

\* C18: for a complete input, trace_path and tracePath return the walk of
\* the input through the converted tree: root first, a leaf last, each step
\* to children[0] when input[feature] <= threshold and to children[1]
\* otherwise, no node twice.
C18_PathIsWalkToLeaf ==
    /\ (TracedPy /\ IsComplete(whatif_values)) =>
          /\ "path" \in DOMAIN py_path
          /\ IsWalk(st_tree, whatif_values, py_path.path)
    /\ (TracedJS /\ IsComplete(whatif_values)) =>
          /\ "path" \in DOMAIN js_path
          /\ IsWalk(st_tree, whatif_values, js_path.path)

\* a fare of 8 met the threshold 8.0 at the root and went left, then passed
\* a second internal node: a path of three ids from both tracers
C18_Witness ==
    /\ TracedJS
    /\ IsComplete(whatif_values)
    /\ st_tree.feature = "fare"
    /\ whatif_values.fare = 8
    /\ Len(py_path.path) = 3
    /\ py_path.path[2] = st_tree.children[1].id
    /\ js_path.path = py_path.path

Last(path) == path[Len(path)]

\* C19: the path traced over the converted tree, of either converter, is
\* the decision path of the model for the same input, and its last id is
\* the leaf model.apply gives.
C19_TraceAgreesWithModel ==
    t_pc = "predicted" =>
        /\ py_path.path = prediction.path_nodes
        /\ Last(py_path.path) = prediction.leaf_node_id
        /\ js_path.path = prediction.path_nodes
        /\ LET backend_path == trace_path(trees[1], whatif_values)
           IN  /\ backend_path.path = prediction.path_nodes
               /\ Last(backend_path.path) = prediction.leaf_node_id

\* a prediction that went right at the root and ended two levels down
C19_Witness ==
    /\ t_pc = "predicted"
    /\ Len(prediction.path_nodes) = 3
    /\ prediction.path_nodes[2] = At(model.children_right, 0)
    /\ prediction.leaf_node_id = Last(py_path.path)
    /\ prediction.leaf_node_id > 2

\* the input lacks the feature the root of the tree tests
LacksTestedFeature ==
    /\ ~st_tree.is_leaf
    /\ st_tree.feature \notin DOMAIN whatif_values

\* C20 as claimed: when the input lacks a feature that a node on the walk
\* tests, trace_path and tracePath both raise and return no path.
C20_MissingFeatureRaises ==
    /\ (TracedPy /\ LacksTestedFeature) =>
          ("raised" \in DOMAIN py_path /\ "path" \notin DOMAIN py_path)
    /\ (TracedJS /\ LacksTestedFeature) =>
          ("raised" \in DOMAIN js_path /\ "path" \notin DOMAIN js_path)

-----------------------------------------------------------------------------
(* Properties of the backend.                                              *)

\* the domains of the four fields
InDomain(body) ==
    /\ DOMAIN body = {"sex", "pclass", "age", "fare"}
    /\ body.sex \in {0, 1}
    /\ body.pclass \in {1, 2, 3}
    /\ body.age >= 0 /\ body.age <= 100
    /\ body.fare >= 0

C21_WitnessRejected ==
    /\ b_response # NoneDict
    /\ b_response.status_code = 422
    /\ \/ "age" \notin DOMAIN b_response.body
       \/ b_response.body = [sex |-> 0, pclass |-> 1, age |-> 101,
                             fare |-> 84]

\* C22: the body of get_trained_model (training and conversion) runs
\* exactly once however the first calls of the startup hook and of the
\* predict, tree and metrics handlers are ordered; every caller is returned
\* the same model instance and the same converted tree.
C22_TrainedOnce ==
    /\ b_callers # {} => b_trainings = 1
    /\ b_callers = {} => b_trainings = 0
    /\ Cardinality(b_seen) <= 1
    /\ \A seen \in b_seen : seen = b_cache
    /\ b_tree_response # NoneDict => b_tree_response.tree = b_cache.tree

\* three different callers were served, a handler first
C22_Witness ==
    /\ Cardinality(b_callers) >= 3
    /\ b_trainings = 1
    /\ b_calls >= 2
    /\ ~b_started \/ b_calls = MaxRequests

-----------------------------------------------------------------------------
(* Properties of the Streamlit app.                                        *)

\* a step in which a turn (chat input or preset click) was handled
TurnHandled == a_turns' # a_turns

\* the what-if state
whatif_state ==
    <<whatif_updates, current_preset, whatif_sex, whatif_pclass, whatif_age,
      whatif_fare>>

\* C23: the transcript is append-only: every step leaves the earlier
\* entries as they were and where they were, and every handled turn
\* (parsed, unparsable or preset) appends exactly two entries, the user's
\* message and right after it the assistant's answer; nothing else writes.
C23_TranscriptAppendOnly ==
    [][LET n == Len(chat_history)
       IN  /\ Len(chat_history') >= n
           /\ SubSeq(chat_history', 1, n) = chat_history
           /\ IF TurnHandled
              THEN /\ Len(chat_history') = n + 2
                   /\ chat_history'[n + 1] =
                        [role |-> "user", content |-> a_turn'.user_message]
                   /\ chat_history'[n + 2].role = "assistant"
              ELSE chat_history' = chat_history]_vars

\* two turns were handled, a parsed one and then an unparsable one
C23_Witness ==
    /\ a_turns = 2
    /\ Len(chat_history) = 5
    /\ chat_history[2].content = "show me a woman in 1st class"
    /\ chat_history[4].content = "xyz nonsense"

\* C24: when the text of a chat turn is unparsable, match_to_cohort is not
\* called, whatif_updates, current_preset and the four whatif_ values keep
\* their values, and the user message and the guidance message are what is
\* appended to the chat history.
C24_UnparsableLeavesWhatIfAlone ==
    [][(TurnHandled /\ a_turn'.kind # "preset"
        /\ parse_passenger_query(a_turn'.user_message) = NoneDict)
       => /\ ~a_turn'.matcher_called
          /\ whatif_state' = whatif_state
          /\ chat_history' =
               chat_history
               \o << [role |-> "user", content |-> a_turn'.user_message],
                     [role |-> "assistant", content |-> GUIDANCE] >>]_vars

\* an unparsable text was handled after a preset had set the what-if state
C24_Witness ==
    /\ a_turns = 2
    /\ a_turn.kind = "unparsable"
    /\ a_turn.user_message = "xyz nonsense"
    /\ current_preset = "third_class_male"
    /\ whatif_age = 40

\* the step of the script run that st.rerun() starts after a turn that
\* called update_whatif_and_respond
RerunAfterUpdate ==
    a_pc = "rerun" /\ a_pc' = "rendered" /\ a_turn.matcher_called

\* C25: after update_whatif_and_respond(sex, pclass, age, fare, ...) and the
\* rerun that follows, the four whatif_ values hold that profile,
\* whatif_updates is None and current_preset is the cohort matched for the
\* profile; the what-if widgets of every run are created with whatif_updates
\* None, and a later run does not apply the update again.
C25_PendingAppliedOnceThenCleared ==
    [][/\ a_widgets_saw' = NoneDict
       /\ a_pc' = "rendered" => whatif_updates' = NoneDict
       /\ RerunAfterUpdate =>
            LET profile == a_turn.profile
            IN  /\ whatif_sex' = IF profile.sex = 0 THEN <<"Female", 0>>
                                 ELSE <<"Male", 1>>
                /\ whatif_pclass' = <<profile.pclass, profile.pclass>>
                /\ whatif_age' = profile.age
                /\ whatif_fare' = profile.fare
                /\ current_preset' =
                     match_to_cohort(profile.sex, profile.pclass,
                                     profile.age, profile.fare)[1]
       /\ (a_pc = "rendered" /\ a_pc' = "rendered") =>
            /\ whatif_sex' = whatif_sex
            /\ whatif_age' = whatif_age
            /\ whatif_pclass' # whatif_pclass =>
                 whatif_fare' = class_avg_fares(whatif_pclass'[2])]_vars

\* the update of the third_class_male preset was applied, and the class
\* the user picked afterwards has stayed
C25_Witness ==
    /\ a_pc = "rendered"
    /\ a_turn # NoneDict
    /\ a_turn.kind = "preset"
    /\ current_preset = "third_class_male"
    /\ whatif_sex = <<"Male", 1>>
    /\ whatif_age = 40
    /\ whatif_pclass = <<1, 1>>
    /\ whatif_fare = 84
    /\ whatif_updates = NoneDict

\* C29: with the shipped rule table match_to_cohort returns a rule, never
\* the fallback, for every profile with sex 0 or 1, so a chat turn or preset
\* click that calls it never sets current_preset to None; 'women' is
\* returned exactly for sex 0 in class 2, 'men' exactly for sex 1 in class 2,
\* and the fare has no influence on the result.  The rule table is
\* constant: it is gone through for every profile before the first turn,
\* and again for the profile of every turn that calls the matcher.
C29_NeverFallback ==
    /\ a_turns = 0 =>
         \A p \in Profiles :
           LET name == match_to_cohort(p.sex, p.pclass, p.age, p.fare)[1]
           IN  /\ name # None
               /\ name = "women" <=> (p.sex = 0 /\ p.pclass = 2)
               /\ name = "men" <=> (p.sex = 1 /\ p.pclass = 2)
               /\ \A fare \in Fares :
                    match_to_cohort(p.sex, p.pclass, p.age, fare)[1] = name
    /\ (a_turn # NoneDict /\ a_turn.matcher_called) =>
         LET p == a_turn.profile
         IN  /\ current_preset # None
             /\ current_preset = "women" <=> (p.sex = 0 /\ p.pclass = 2)
             /\ current_preset = "men" <=> (p.sex = 1 /\ p.pclass = 2)
             /\ \A fare \in {0, 8, 13, 20, 84, 500} :
                  match_to_cohort(p.sex, p.pclass, p.age, fare)[1]
                  = current_preset

\* the text "gentleman" (sex 1, class 2 by default) was matched to 'men'
C29_Witness ==
    /\ a_turn # NoneDict
    /\ a_turn.kind = "parsed"
    /\ a_turn.profile.sex = 1
    /\ a_turn.profile.pclass = 2
    /\ current_preset = "men"

\* C30: every profile a chat query writes into the pending what-if update
\* lies inside the domain of the what-if controls: age between 0 and 80
\* (the age slider) and fare between 0.0 and 500.0 (the fare slider).
C30_PendingInsideSliderDomain ==
    (a_turn # NoneDict /\ a_turn.kind = "parsed"
     /\ whatif_updates # NoneDict)
    => /\ 0 <= whatif_updates.age /\ whatif_updates.age <= 80
       /\ 0 <= whatif_updates.fare /\ whatif_updates.fare <= 500

-----------------------------------------------------------------------------
(* Further properties of the tree.                                         *)

\* C26: predict_single returns path_nodes in root-to-leaf order: the first
\* element is the root id 0, every later element is a child of the element
\* before it, and the last element is leaf_node_id (a leaf of the model).
C26_PathNodesRootToLeaf ==
    prediction # NoneDict =>
        LET path == prediction.path_nodes
        IN  /\ Len(path) >= 1
            /\ path[1] = 0
            /\ \A i \in 2..Len(path) :
                 path[i] \in {At(model.children_left, path[i - 1]),
                              At(model.children_right, path[i - 1])}
            /\ Last(path) = prediction.leaf_node_id
            /\ At(model.children_left, Last(path)) = TREE_LEAF

\* a prediction that went left at the root, then right, to node 3
C26_Witness ==
    /\ prediction # NoneDict
    /\ prediction.path_nodes = <<0, 1, 3>>
    /\ At(model.children_right, 1) = 3
    /\ prediction.leaf_node_id = 3

\* C28 as claimed: every internal node the backend converter produces has a
\* left_label and a right_label, whatever decoders were passed, and no leaf
\* has either.
C28_InternalNodesLabelled ==
    \A tree \in BackendTrees : \A node \in Nodes(tree) :
        IF IsInternal(node)
        THEN /\ "left_label" \in DOMAIN node
             /\ "right_label" \in DOMAIN node
        ELSE /\ "left_label" \notin DOMAIN node
             /\ "right_label" \notin DOMAIN node

-----------------------------------------------------------------------------
(* Properties of the tutorial.                                             *)

\* a step that is a call of the tutorial function f
TutorialCall(f) == u_calls' # u_calls /\ u_last' = f

\* C27: whatever the order of start_tutorial, advance_tutorial and
\* skip_tutorial calls, tutorial_step stays in {0, 1, 2}; start_tutorial
\* sets the step to 0 (and the tutorial active); advance_tutorial below
\* step 2 adds exactly one to the step and leaves tutorial_active as it is
\* (an active tutorial stays active); advance_tutorial at step 2 turns the
\* tutorial off and leaves the step at 2; has_seen_tutorial never goes from
\* true to false, and while it is true should_auto_start_tutorial is false.
C27_TutorialStateMachine ==
    [][/\ tutorial_step' \in {0, 1, 2}
       /\ has_seen_tutorial => has_seen_tutorial'
       /\ has_seen_tutorial' =>
            ~should_auto_start_tutorial(has_seen_tutorial',
                                        tutorial_active')
       /\ TutorialCall("start_tutorial") =>
            /\ tutorial_step' = 0
            /\ tutorial_active'
            /\ has_seen_tutorial'
       /\ (TutorialCall("advance_tutorial") /\ tutorial_step < 2) =>
            /\ tutorial_step' = tutorial_step + 1
            /\ tutorial_active' = tutorial_active
       /\ (TutorialCall("advance_tutorial") /\ tutorial_step = 2) =>
            /\ ~tutorial_active'
            /\ tutorial_step' = 2
       /\ TutorialCall("skip_tutorial") =>
            /\ ~tutorial_active'
            /\ tutorial_step' = tutorial_step]_vars

\* the tutorial was started, advanced twice and finished at step 2
C27_Witness ==
    /\ u_calls = 4
    /\ u_last = "advance_tutorial"
    /\ tutorial_step = 2
    /\ ~tutorial_active
    /\ has_seen_tutorial
    /\ Len(chat_history) = 5
    /\ chat_history[5].content = TUTORIAL_COMPLETE
    /\ chat_history[4].content \in {TUTORIAL_STEPS[2].tree_message,
                                    TUTORIAL_STEPS[2].xgb_message}
    /\ chat_history[2].content \in {TUTORIAL_STEPS[0].tree_message,
                                    TUTORIAL_STEPS[0].xgb_message}

====
